---------------------------- MODULE Spec2Model ----------------------------
(***************************************************************************)
(* Order execution and risk engine of autonomous-trader.                   *)
(*                                                                         *)
(* Three specifications share this module:                                 *)
(*   SpecFifo    the FIFO position ledger (db.fifo_position), replayed row *)
(*               by row over a bounded trade history;                      *)
(*   SpecClient  one call of the retrying exchange client                  *)
(*               (MexcClient._signed / MexcClient.public_get);             *)
(*   Spec        the live system: symbol worker, order status poller, the  *)
(*               order and trade tables and the exchange.                  *)
(* Quantities and prices are integers (units of the smallest step); times  *)
(* are integers (milliseconds in SpecClient, seconds in Spec).             *)
(***************************************************************************)
EXTENDS Integers, Sequences, FiniteSets, TLC

VARIABLES
    \* ---- SpecFifo: the replay of fifo_position
    fRows,      \* the trade rows handed to fifo_position (ordered by ts, id)
    fIdx,       \* number of rows the for loop has consumed
    fLots,      \* the local list `lots`
    fOut,       \* <<the returned tuple>>, or <<>> while the loop runs
    \* ---- SpecClient: one call of MexcClient._signed / public_get
    cKind,      \* "signed" or "public"
    cPc,        \* "attempt", "wait", "sleep", "epilogue", "done"
    cAttempt,   \* the loop variable `attempt`
    cLastResp,  \* last_resp: <<>> (None) or <<response>>
    cLastExc,   \* last_exc: <<>> (None) or <<exception>>
    cClock,     \* wall clock, milliseconds
    cDelay,     \* the delay handed to asyncio.sleep
    cReq,       \* the request in flight: <<>> or <<request>>
    cLog,       \* history: the requests sent, in order
    cPrev,      \* history: how the latest finished attempt ended
    cOut,       \* what the call gave its caller
    \* ---- Spec: workers, poller, tables, exchange
    mode,       \* env MODE: "paper" or "live"
    now,        \* wall clock, seconds (int(time.time()))
    exOrders,   \* the orders the exchange holds
    orders,     \* table orders (client_order_id is unique)
    trades,     \* table trades, in insertion order
    worker,     \* per symbol: where run_symbol stands and its locals
    poller,     \* where order_status_poller stands and its locals
    hist,       \* history: placements that raised, those of them queried, failed polls of the orders last loaded, intents
    \* ---- SpecGuards: one iteration of run_symbol from the decision to the order
    gIn,        \* what the iteration observed: mode, decision, market, position, balances, RiskState
    gPc,        \* where the iteration stands
    gLoc,       \* its locals: price_str, qty_str as numbers
    gOut        \* how the iteration ended: <<>> or <<outcome>>

fifoVars == <<fRows, fIdx, fLots, fOut>>
clientVars == <<cKind, cPc, cAttempt, cLastResp, cLastExc, cClock, cDelay, cReq, cLog, cPrev, cOut>>
sysVars == <<mode, now, exOrders, orders, trades, worker, poller, hist>>
guardVars == <<gIn, gPc, gLoc, gOut>>
vars == <<fifoVars, clientVars, sysVars, guardVars>>

Min(a, b) == IF a <= b THEN a ELSE b
Max(a, b) == IF a >= b THEN a ELSE b

None == "None"

\* Optional values: <<>> is Python's None, <<v>> a value.
Nothing == <<>>
Some(v) == <<v>>
IsSome(o) == o # <<>>

(***************************************************************************)
(* SignedApiClient: MexcClient._signed and MexcClient.public_get           *)
(***************************************************************************)
max_retries == 5
backoff_base_ms == 500
backoff_cap_ms == 8000
jitter_max_ms == 250
recv_window == 5000

\* Shortest round trip of one HTTP request, milliseconds.
RoundTripMs == 1
\* Wall clock when the call starts.
CallStartMs == 1000

\* A Retry-After header: absent, empty, text that float() rejects, or a number
\* (kept in milliseconds).
NoHeader == [kind |-> "absent", ms |-> 0]
EmptyHeader == [kind |-> "empty", ms |-> 0]
TextHeader == [kind |-> "text", ms |-> 0]
NumHeader(ms) == [kind |-> "number", ms |-> ms]

Response(status, ra, json) == [status |-> status, retryAfter |-> ra, json |-> json]

\* The responses and exceptions the transport may produce for an attempt.
Responses ==
    { Response(200, NoHeader, TRUE), Response(200, NoHeader, FALSE),
      Response(400, NoHeader, TRUE), Response(404, NumHeader(2000), TRUE),
      Response(418, NoHeader, TRUE),
      Response(429, NoHeader, TRUE), Response(429, TextHeader, TRUE),
      Response(429, NumHeader(0), TRUE), Response(429, NumHeader(2000), TRUE),
      Response(503, EmptyHeader, TRUE), Response(503, NumHeader(2000), TRUE) }

TransportErrors ==
    {"ConnectError", "ConnectTimeout", "ReadTimeout", "RemoteProtocolError", "WriteError",
     "WriteTimeout", "PoolTimeout", "ReadError"}

\* isinstance(exc, (...)) of _should_retry (mexc_client.py:38-44).
RetryableExceptions ==
    {"ConnectError", "ConnectTimeout", "ReadTimeout", "RemoteProtocolError", "WriteError"}

\* _should_retry(None, resp) (mexc_client.py:45-50).
RetryAnyClientError(status) == status >= 400
ShouldRetryStatus(status) ==
    \/ status \in {429, 418}
    \/ (500 <= status /\ status <= 599)

\* _should_retry(exc, None) (mexc_client.py:37-44).
ShouldRetryExc(exc) == exc \in RetryableExceptions

\* httpx.Response.raise_for_status raises for an error status.
IsErrorStatus(status) == status >= 400

Pow2(n) == 2 ^ n

\* base = min(backoff_cap, backoff_base * 2 ** (attempt - 1))  (mexc_client.py:61)
Backoff(attempt) == Min(backoff_cap_ms, backoff_base_ms * Pow2(attempt - 1))

\* The header value _retry_after returns from, if any (mexc_client.py:54-60):
\* a present, non-empty header that float() parses gives max(0.0, float(ra)).
HintNeverUsable(resp) == FALSE
HintUsable(resp) == IsSome(resp) /\ resp[1].retryAfter.kind = "number"

\* _retry_after(resp, attempt) with the jitter drawn (mexc_client.py:52-63).
RetryAfter(resp, attempt, jitter) ==
    IF HintUsable(resp) THEN Max(0, resp[1].retryAfter.ms)
    ELSE Backoff(attempt) + jitter

Jitters == {0, jitter_max_ms}

\* hmac_sha256(secret, msg): an uninterpreted injective digest (utils.py:9-10).
hmac_sha256(secret, msg) == <<"hmac", secret, msg>>

\* now_ms() (utils.py:6-7) read at wall clock `clock`; a stale reading would be
\* the one taken when the call started.
CallStartTimestamp(clock) == CallStartMs
now_ms(clock) == clock

\* The request an attempt builds (mexc_client.py:73-77; public: 118).
BuildRequest(kind, clock) ==
    IF kind = "signed"
    THEN LET qs == [params |-> "params", timestamp |-> now_ms(clock), recvWindow |-> recv_window]
         IN  [qs |-> qs, signature |-> hmac_sha256("secret", qs), sentAt |-> clock]
    ELSE [qs |-> [params |-> "params", timestamp |-> 0, recvWindow |-> 0],
          signature |-> <<>>, sentAt |-> clock]

NoResult == [kind |-> "none", status |-> 0, exc |-> "", hint |-> NoHeader, n |-> 0, at |-> 0]
NoOutcome == [kind |-> "none", err |-> "", status |-> 0, n |-> 0]

ClientIdle ==
    /\ cKind = "signed"
    /\ cPc = "idle"
    /\ cAttempt = 0
    /\ cLastResp = Nothing
    /\ cLastExc = Nothing
    /\ cClock = 0
    /\ cDelay = 0
    /\ cReq = Nothing
    /\ cLog = <<>>
    /\ cPrev = NoResult
    /\ cOut = NoOutcome

FifoIdle ==
    /\ fRows = <<>>
    /\ fIdx = 0
    /\ fLots = <<>>
    /\ fOut = <<>>

SysIdle ==
    /\ mode = "paper"
    /\ now = 0
    /\ exOrders = {}
    /\ orders = {}
    /\ trades = <<>>
    /\ worker = <<>>
    /\ poller = <<>>
    /\ hist = <<>>

GuardIdle ==
    /\ gIn = <<>>
    /\ gPc = "idle"
    /\ gLoc = <<>>
    /\ gOut = <<>>

ClientInit ==
    /\ cKind \in {"signed", "public"}
    /\ cPc = "attempt"
    /\ cAttempt = 1
    /\ cLastResp = Nothing
    /\ cLastExc = Nothing
    /\ cClock = CallStartMs
    /\ cDelay = 0
    /\ cReq = Nothing
    /\ cLog = <<>>
    /\ cPrev = NoResult
    /\ cOut = NoOutcome
    /\ FifoIdle
    /\ SysIdle
    /\ GuardIdle

\* Top of the loop body: build the URL and send it (mexc_client.py:73-80).
ClientSend ==
    /\ cPc = "attempt"
    /\ LET req == BuildRequest(cKind, cClock)
       IN  /\ cReq' = Some(req)
           /\ cLog' = Append(cLog, req)
    /\ cPc' = "wait"
    /\ UNCHANGED <<cKind, cAttempt, cLastResp, cLastExc, cClock, cDelay, cPrev, cOut, fifoVars, sysVars, guardVars>>

\* The except branch (mexc_client.py:91-100), entered with exception `exc`
\* raised in attempt cAttempt; `resp` is last_resp as it stands then.
HandleException(exc, status, resp) ==
    /\ cLastExc' = Some([exc |-> exc, status |-> status, n |-> cAttempt])
    /\ cLastResp' = resp
    /\ IF ShouldRetryExc(exc) /\ cAttempt < max_retries
       THEN \E j \in Jitters :
              /\ cDelay' = RetryAfter(Nothing, cAttempt, j)
              /\ cPc' = "sleep"
       ELSE /\ cDelay' = cDelay
            /\ cPc' = "epilogue"
    /\ cOut' = cOut

\* The request raised a transport exception (mexc_client.py:80, 91-100).
ClientException ==
    /\ cPc = "wait"
    /\ \E exc \in TransportErrors :
         /\ cPrev' = [kind |-> "exc", status |-> 0, exc |-> exc, hint |-> NoHeader,
                      n |-> cAttempt, at |-> cClock + RoundTripMs]
         /\ HandleException(exc, 0, cLastResp)
    /\ cClock' = cClock + RoundTripMs
    /\ cReq' = Nothing
    /\ UNCHANGED <<cKind, cAttempt, cLog, fifoVars, sysVars, guardVars>>

\* The request returned a response (mexc_client.py:80-89, 91-100).
ClientResponse ==
    /\ cPc = "wait"
    /\ \E r \in Responses :
         LET resp == Some([status |-> r.status, retryAfter |-> r.retryAfter,
                           json |-> r.json, n |-> cAttempt])
         IN  /\ cPrev' = [kind |-> "resp", status |-> r.status, exc |-> "",
                          hint |-> r.retryAfter, n |-> cAttempt, at |-> cClock + RoundTripMs]
             /\ \/ /\ ShouldRetryStatus(r.status)
                   /\ cLastResp' = resp
                   /\ \E j \in Jitters : cDelay' = RetryAfter(resp, cAttempt, j)
                   /\ cPc' = "sleep"
                   /\ UNCHANGED <<cLastExc, cOut>>
                \/ /\ ~ShouldRetryStatus(r.status)
                   /\ IsErrorStatus(r.status)
                   /\ HandleException("HTTPStatusError", r.status, resp)
                \/ /\ ~ShouldRetryStatus(r.status)
                   /\ ~IsErrorStatus(r.status)
                   /\ ~r.json
                   /\ HandleException("JSONDecodeError", 0, resp)
                \/ /\ ~ShouldRetryStatus(r.status)
                   /\ ~IsErrorStatus(r.status)
                   /\ r.json
                   /\ cLastResp' = resp
                   /\ cOut' = [kind |-> "return", err |-> "", status |-> r.status, n |-> cAttempt]
                   /\ cPc' = "done"
                   /\ UNCHANGED <<cLastExc, cDelay>>
    /\ cClock' = cClock + RoundTripMs
    /\ cReq' = Nothing
    /\ UNCHANGED <<cKind, cAttempt, cLog, fifoVars, sysVars, guardVars>>

\* asyncio.sleep(delay) returns; `continue` takes the next value of the range
\* or leaves the loop (mexc_client.py:71, 86-87, 97-98).
ClientWake ==
    /\ cPc = "sleep"
    /\ cClock' = cClock + cDelay
    /\ IF cAttempt < max_retries
       THEN /\ cAttempt' = cAttempt + 1
            /\ cPc' = "attempt"
       ELSE /\ cAttempt' = cAttempt
            /\ cPc' = "epilogue"
    /\ UNCHANGED <<cKind, cLastResp, cLastExc, cDelay, cReq, cLog, cPrev, cOut, fifoVars, sysVars, guardVars>>

\* After the loop (mexc_client.py:102-111): last_resp.raise_for_status(), then
\* raise last_exc or httpx.HTTPError.
ClientEpilogue ==
    /\ cPc = "epilogue"
    /\ cOut' =
         IF IsSome(cLastResp) /\ IsErrorStatus(cLastResp[1].status)
         THEN [kind |-> "raise", err |-> "HTTPStatusError",
               status |-> cLastResp[1].status, n |-> cLastResp[1].n]
         ELSE IF IsSome(cLastExc)
         THEN [kind |-> "raise", err |-> cLastExc[1].exc,
               status |-> cLastExc[1].status, n |-> cLastExc[1].n]
         ELSE [kind |-> "raise", err |-> "HTTPError", status |-> 0, n |-> 0]
    /\ cPc' = "done"
    /\ UNCHANGED <<cKind, cAttempt, cLastResp, cLastExc, cClock, cDelay, cReq, cLog, cPrev, fifoVars, sysVars, guardVars>>

ClientNext == ClientSend \/ ClientException \/ ClientResponse \/ ClientWake \/ ClientEpilogue

SpecClient == ClientInit /\ [][ClientNext]_vars

\* ---- claims about the client
FinalRequest == cLog[Len(cLog)]

TerminalClientError(status) == 400 <= status /\ status <= 499 /\ status \notin {429, 418}

\* C4: for signed and public calls alike, once an attempt receives a 4xx
\* response other than 429 and 418 no further request is sent (the requests
\* sent number exactly the attempt that received it: one when it answers the
\* first request) and the call ends raising that response's status error.
C4_ClientErrorIsTerminal ==
    (cPrev.kind = "resp" /\ TerminalClientError(cPrev.status)) =>
        /\ cPc \in {"epilogue", "done"}
        /\ Len(cLog) = cPrev.n
        /\ cPc = "done" =>
              cOut = [kind |-> "raise", err |-> "HTTPStatusError",
                      status |-> cPrev.status, n |-> cPrev.n]

\* C4 witness: a public call whose first response is 400 has ended, raising,
\* after one request.
C4_Witness ==
    /\ cKind = "public"
    /\ cPc = "done"
    /\ cPrev.kind = "resp"
    /\ cPrev.status = 400
    /\ Len(cLog) = 1
    /\ cOut.kind = "raise"

\* C5: the delay slept after a retryable response with a numeric Retry-After of
\* h is at least h, and the next attempt is sent no sooner than h after that
\* response; without a usable hint the delay is
\* min(backoff_cap, backoff_base * 2^(attempt-1)) plus a jitter in [0, 0.25 s].
C5_RetryAfterHonoured ==
    LET hinted == cPrev.kind = "resp" /\ cPrev.hint.kind = "number"
    IN  /\ (cPc = "sleep" /\ hinted) =>
              /\ cDelay >= cPrev.hint.ms
              /\ cDelay = (IF cPrev.hint.ms > 0 THEN cPrev.hint.ms ELSE 0)
        /\ (cPc = "sleep" /\ ~hinted) =>
              LET base == IF backoff_base_ms * 2 ^ (cPrev.n - 1) < backoff_cap_ms
                          THEN backoff_base_ms * 2 ^ (cPrev.n - 1)
                          ELSE backoff_cap_ms
              IN  base <= cDelay /\ cDelay <= base + jitter_max_ms
        /\ (cPc = "wait" /\ cAttempt > 1 /\ hinted) =>
              FinalRequest.sentAt - cPrev.at >= cPrev.hint.ms

\* C5 witness: the second attempt is in flight, sent 2 s after a 429 that
\* carried Retry-After: 2.
C5_Witness ==
    /\ cPc = "wait"
    /\ cAttempt = 2
    /\ cPrev.kind = "resp"
    /\ cPrev.status = 429
    /\ cPrev.hint = NumHeader(2000)
    /\ FinalRequest.sentAt - cPrev.at = 2000

\* The faults the claim calls transient: connection refused, any timeout,
\* reset, partial write; and the statuses 429, 418 and 5xx.
ClaimedTransient(prev) ==
    \/ /\ prev.kind = "exc"
       /\ prev.exc \in {"ConnectError", "ConnectTimeout", "ReadTimeout", "WriteTimeout",
                        "PoolTimeout", "RemoteProtocolError", "WriteError"}
    \/ /\ prev.kind = "resp"
       /\ (prev.status \in {429, 418} \/ (500 <= prev.status /\ prev.status <= 599))

\* C6 as claimed: a call sends at most max_retries requests, and a finished
\* attempt is followed by another exactly when attempts remain and it ended in
\* a transient network fault (any timeout included) or in 429, 418 or 5xx.
C6_RetriedExactlyWhenTransient ==
    /\ Len(cLog) <= max_retries
    /\ (cPc \in {"sleep", "epilogue", "done"} /\ cPrev.kind # "none") =>
          ((cPc = "sleep" /\ cAttempt < max_retries)
              <=> (cPrev.n < max_retries /\ ClaimedTransient(cPrev)))

\* The budget is exhausted: every attempt was used and the last one failed in
\* a way the client retries while attempts remain.
BudgetExhausted ==
    /\ cPc = "done"
    /\ cOut.kind = "raise"
    /\ Len(cLog) = max_retries
    /\ \/ cPrev.kind = "exc" /\ ShouldRetryExc(cPrev.exc)
       \/ cPrev.kind = "resp" /\ ShouldRetryStatus(cPrev.status)

\* C7 as claimed: when the budget is exhausted the error raised is the final
\* attempt's: its response's status error if it received a response, else its
\* exception; never an earlier attempt's response.
C7_ErrorOfFinalAttempt ==
    BudgetExhausted =>
        /\ cOut.n = max_retries
        /\ cPrev.kind = "resp" => (cOut.err = "HTTPStatusError" /\ cOut.status = cPrev.status)
        /\ cPrev.kind = "exc" => cOut.err = cPrev.exc

\* C8: every request of a signed call carries the clock reading of its own
\* attempt as timestamp and the digest of exactly its own query string; over
\* the attempts of the call timestamps strictly increase, so no timestamp and
\* no signature is sent twice.
C8_FreshTimestampEachAttempt ==
    cKind = "signed" =>
        \A i \in 1..Len(cLog) :
            /\ cLog[i].qs.timestamp = cLog[i].sentAt
            /\ cLog[i].qs.recvWindow = recv_window
            /\ cLog[i].signature = hmac_sha256("secret", cLog[i].qs)
            /\ \A j \in 1..(i - 1) :
                  /\ cLog[j].qs.timestamp < cLog[i].qs.timestamp
                  /\ cLog[j].signature # cLog[i].signature

\* C8 witness: a signed call that used all its attempts.
C8_Witness ==
    /\ cKind = "signed"
    /\ cPc = "done"
    /\ Len(cLog) = max_retries
    /\ cLog[1].qs.timestamp = CallStartMs
    /\ cLog[max_retries].qs.timestamp > CallStartMs

(***************************************************************************)
(* PositionLedger: db.fifo_position                                        *)
(***************************************************************************)
MaxRows == 3
MaxQty == 2
Prices == {100, 110}

\* A row of load_trades_fifo_rows: side, price, qty, ts.  Rows arrive ordered
\* by (ts, id); the timestamp of the i-th row is i.
TradeRow(side, price, qty, ts) == [side |-> side, price |-> price, qty |-> qty, ts |-> ts]

RowsOfLen(n) ==
    { r \in [1..n -> [side : {"BUY", "SELL"}, price : Prices, qty : 1..MaxQty, ts : 1..n]] :
        \A i \in 1..n : r[i].ts = i }

\* lots[0] is the lot a SELL consumes (db.py:197-201).
HeadIndexNewest(lots) == Len(lots)
HeadIndex(lots) == 1

\* take = min(lots[0]["qty"], remaining)  (db.py:197)
TakeWholeLot(lotQty, remaining) == lotQty
Take(lotQty, remaining) == Min(lotQty, remaining)

RemoveAt(s, i) == SubSeq(s, 1, i - 1) \o SubSeq(s, i + 1, Len(s))

\* The while loop of a SELL (db.py:196-201): consume lots until the sell
\* quantity is exhausted or no lot is left; what is left over is dropped.
RECURSIVE Consume(_, _)
Consume(lots, remaining) ==
    IF remaining > 0 /\ lots # <<>>
    THEN LET h    == HeadIndex(lots)
             take == Take(lots[h].qty, remaining)
             left == lots[h].qty - take
             nl   == IF left <= 0 THEN RemoveAt(lots, h)
                                  ELSE [lots EXCEPT ![h].qty = left]
         IN  Consume(nl, remaining - take)
    ELSE lots

RECURSIVE SumQty(_)
SumQty(lots) == IF lots = <<>> THEN 0 ELSE lots[1].qty + SumQty(Tail(lots))

\* A ledger that refuses a SELL larger than the open lots and keeps them.
ApplyRowRefuseOversell(lots, t) ==
    IF t.side = "BUY" THEN Append(lots, [qty |-> t.qty, price |-> t.price, ts |-> t.ts])
    ELSE IF t.side = "SELL" /\ t.qty <= SumQty(lots) THEN Consume(lots, t.qty)
    ELSE lots

\* One pass of the for loop over a row (db.py:187-202).
ApplyRow(lots, t) ==
    IF t.side = "BUY" THEN Append(lots, [qty |-> t.qty, price |-> t.price, ts |-> t.ts])
    ELSE IF t.side = "SELL" THEN Consume(lots, t.qty)
    ELSE lots

RECURSIVE SumNotional(_)
SumNotional(lots) ==
    IF lots = <<>> THEN 0 ELSE lots[1].qty * lots[1].price + SumNotional(Tail(lots))

\* The return value (db.py:203-208).  vwap is the quotient num/den, kept as
\* the exact fraction; an empty position returns (0.0, 0.0, None).
PositionOf(lots) ==
    LET qty_open == SumQty(lots)
    IN  IF qty_open <= 0
        THEN [qty |-> 0, vwap |-> [num |-> 0, den |-> 1], ts |-> None]
        ELSE [qty |-> qty_open,
              vwap |-> [num |-> SumNotional(lots), den |-> qty_open],
              ts |-> lots[1].ts]

RECURSIVE ReplayLots(_, _)
ReplayLots(lots, rows) ==
    IF rows = <<>> THEN lots ELSE ReplayLots(ApplyRow(lots, rows[1]), Tail(rows))

fifo_position(rows) == PositionOf(ReplayLots(<<>>, rows))

FifoInit ==
    /\ fRows \in UNION { RowsOfLen(n) : n \in 0..MaxRows }
    /\ fIdx = 0
    /\ fLots = <<>>
    /\ fOut = <<>>
    /\ ClientIdle
    /\ SysIdle
    /\ GuardIdle

FifoBuy ==
    /\ fOut = <<>>
    /\ fIdx < Len(fRows)
    /\ fRows[fIdx + 1].side = "BUY"
    /\ fLots' = ApplyRow(fLots, fRows[fIdx + 1])
    /\ fIdx' = fIdx + 1
    /\ UNCHANGED <<fRows, fOut, clientVars, sysVars, guardVars>>

FifoSell ==
    /\ fOut = <<>>
    /\ fIdx < Len(fRows)
    /\ fRows[fIdx + 1].side = "SELL"
    /\ fLots' = ApplyRow(fLots, fRows[fIdx + 1])
    /\ fIdx' = fIdx + 1
    /\ UNCHANGED <<fRows, fOut, clientVars, sysVars, guardVars>>

FifoReturn ==
    /\ fOut = <<>>
    /\ fIdx = Len(fRows)
    /\ fOut' = <<PositionOf(fLots)>>
    /\ UNCHANGED <<fRows, fIdx, fLots, clientVars, sysVars, guardVars>>

FifoNext == FifoBuy \/ FifoSell \/ FifoReturn

SpecFifo == FifoInit /\ [][FifoNext]_vars

FifoDone == fOut # <<>>
FifoResult == fOut[1]

\* ---- reference quantities, computed from the rows alone
RECURSIVE SumSide(_, _)
SumSide(rows, side) ==
    IF rows = <<>> THEN 0
    ELSE (IF rows[1].side = side THEN rows[1].qty ELSE 0) + SumSide(Tail(rows), side)

\* No SELL ever asks for more than is open when it is replayed.
NeverOversold(rows) ==
    \A n \in 1..Len(rows) :
        SumSide(SubSeq(rows, 1, n), "SELL") <= SumSide(SubSeq(rows, 1, n), "BUY")

\* C9 as claimed: whenever total SELL quantity is at most total BUY quantity,
\* in any order of BUYs and SELLs, the open quantity returned by fifo_position
\* is the sum of the BUY quantities minus the sum of the SELL quantities.
C9_AnyOrder ==
    (FifoDone /\ SumSide(fRows, "SELL") <= SumSide(fRows, "BUY"))
        => FifoResult.qty = SumSide(fRows, "BUY") - SumSide(fRows, "SELL")

\* C9 amended: when no SELL exceeds the quantity open at the moment it is
\* replayed (every prefix of the history has SELL total <= BUY total), the
\* open quantity returned is the BUY total minus the SELL total.
C9_NeverOversold ==
    (FifoDone /\ NeverOversold(fRows))
        => FifoResult.qty = SumSide(fRows, "BUY") - SumSide(fRows, "SELL")

\* C9 witness: a finished replay of a never-oversold history that holds a
\* SELL consuming part of the lots and ends with an open position.
C9_Witness ==
    /\ FifoDone
    /\ NeverOversold(fRows)
    /\ Len(fRows) = 3
    /\ fRows[2].side = "SELL"
    /\ fRows[3].side = "BUY"
    /\ FifoResult.qty = 2

\* ---- the open lots stated without replaying SELLs against a lot list
\* Open quantity after each row: a BUY adds, a SELL subtracts down to zero.
RECURSIVE OpenTotal(_)
OpenTotal(rows) ==
    IF rows = <<>> THEN 0
    ELSE LET before == OpenTotal(SubSeq(rows, 1, Len(rows) - 1))
             t      == rows[Len(rows)]
         IN  IF t.side = "BUY" THEN before + t.qty ELSE Max(0, before - t.qty)

\* Oldest-first consumption leaves the newest units: row i keeps what of the
\* open total is not covered by the BUYs after it.
Remaining(rows, i) ==
    IF rows[i].side # "BUY" THEN 0
    ELSE Min(rows[i].qty,
             Max(0, OpenTotal(rows) - SumSide(SubSeq(rows, i + 1, Len(rows)), "BUY")))

OpenRows(rows) == { i \in 1..Len(rows) : Remaining(rows, i) > 0 }

RECURSIVE SumRemaining(_, _, _)
SumRemaining(rows, S, weighted) ==
    IF S = {} THEN 0
    ELSE LET i == CHOOSE x \in S : TRUE
         IN  Remaining(rows, i) * (IF weighted THEN rows[i].price ELSE 1)
                + SumRemaining(rows, S \ {i}, weighted)

OldestOpen(rows) == CHOOSE i \in OpenRows(rows) : \A j \in OpenRows(rows) : i <= j

\* C10: after every replayed row the lots are the BUYs left by oldest-first
\* consumption (in history order, each with its remaining quantity), and the
\* returned position has the quantity-weighted mean price of those lots as
\* average entry and the timestamp of the oldest of them.
C10_OldestFirst ==
    LET seen == SubSeq(fRows, 1, fIdx)
    IN  /\ Len(fLots) = Cardinality(OpenRows(seen))
        /\ \A k \in 1..Len(fLots) :
              /\ fLots[k].ts \in OpenRows(seen)
              /\ fLots[k].qty = Remaining(seen, fLots[k].ts)
              /\ fLots[k].price = seen[fLots[k].ts].price
              /\ k > 1 => fLots[k - 1].ts < fLots[k].ts
        /\ (FifoDone /\ OpenRows(fRows) # {}) =>
              /\ FifoResult.qty = SumRemaining(fRows, OpenRows(fRows), FALSE)
              /\ FifoResult.vwap.num = SumRemaining(fRows, OpenRows(fRows), TRUE)
              /\ FifoResult.vwap.den = FifoResult.qty
              /\ FifoResult.ts = OldestOpen(fRows)

\* C10 witness: BUY 1@100, BUY 1@110, SELL 1 returns quantity 1 at 110, opened
\* by the second BUY.
C10_Witness ==
    /\ FifoDone
    /\ Len(fRows) = 3
    /\ fRows[1] = TradeRow("BUY", 100, 1, 1)
    /\ fRows[2] = TradeRow("BUY", 110, 1, 2)
    /\ fRows[3] = TradeRow("SELL", 100, 1, 3)
    /\ FifoResult = [qty |-> 1, vwap |-> [num |-> 110, den |-> 1], ts |-> 2]

\* ---- the snapshot as the caller receives it
\* The tuple of the return statements (db.py:204-208), each component as an
\* optional value: <<>> is None, <<v>> is the value v.
ReturnedTuple(lots) ==
    LET p == PositionOf(lots)
    IN  [qty_open  |-> Some(p.qty),
         avg_entry |-> Some(p.vwap),
         first_ts  |-> IF p.ts = None THEN Nothing ELSE Some(p.ts)]

\* C11: for every trade history the returned open quantity is >= 0, and
\* whenever it is 0 both the average entry and the open timestamp are null.
C11_EmptySnapshotIsNull ==
    FifoDone =>
        LET r == ReturnedTuple(fLots)
        IN  /\ r.qty_open[1] >= 0
            /\ r.qty_open[1] = 0 => (r.avg_entry = Nothing /\ r.first_ts = Nothing)

\* Row i is a SELL of more than the quantity open before it.
Oversell(rows, i) ==
    /\ rows[i].side = "SELL"
    /\ rows[i].qty > OpenTotal(SubSeq(rows, 1, i - 1))

\* C12: a SELL of more than the open lots empties the lots and carries
\* nothing negative; a BUY of q that comes right after it holds the whole
\* position, which is exactly q.
C12_OversellDropped ==
    /\ (fIdx >= 1 /\ Oversell(fRows, fIdx)) =>
          /\ fLots = <<>>
          /\ PositionOf(fLots).qty = 0
    /\ (fIdx >= 2 /\ fRows[fIdx].side = "BUY" /\ Oversell(fRows, fIdx - 1)) =>
          /\ Len(fLots) = 1
          /\ fLots[1].qty = fRows[fIdx].qty
          /\ FifoDone => FifoResult.qty = fRows[fIdx].qty

\* C12 witness: BUY 1, SELL 2, BUY 2 returns an open quantity of 2.
C12_Witness ==
    /\ FifoDone
    /\ Len(fRows) = 3
    /\ fRows[1].side = "BUY" /\ fRows[1].qty = 1
    /\ fRows[2].side = "SELL" /\ fRows[2].qty = 2
    /\ fRows[3].side = "BUY" /\ fRows[3].qty = 2
    /\ FifoResult.qty = 2

(***************************************************************************)
(* OrderLifecycleManager and SymbolWorker: main.run_symbol,                *)
(* main.order_status_poller, the orders and trades tables, the exchange    *)
(***************************************************************************)
HEARTBEAT == 2
\* await asyncio.sleep(max(HEARTBEAT, 5)) of the except branch (main.py:323)
ErrorSleep == Max(HEARTBEAT, 5)
\* poll_sec = max(3, HEARTBEAT) (main.py:402)
PollSec == Max(3, HEARTBEAT)

MaxTime == 5
MaxOrders == 2

Symbols == {"BTCUSDT"}
OrderQtys == {2}
FillPrice == 100

\* WHERE status IN ('NEW','PARTIALLY_FILLED') of fetch_open_orders (db.py:156)
OpenAndFilledStatuses == {"NEW", "PARTIALLY_FILLED", "FILLED"}
OpenStatuses == {"NEW", "PARTIALLY_FILLED"}
\* elif status in (...) of the poller (main.py:451)
TerminalStatuses == {"FILLED", "CANCELED", "EXPIRED", "REJECTED"}

\* A client id without the symbol.
ClientIdOfSecond(sym, t) == <<"", t>>

\* client_id = f"ai_{sym}_{int(time.time())}" (main.py:271)
ClientId(sym, t) == <<sym, t>>

\* The rows of one symbol as load_trades_fifo_rows returns them (db.py:172-180).
RECURSIVE FifoRows(_, _, _)
FifoRows(ts, sym, k) ==
    IF ts = <<>> THEN <<>>
    ELSE IF ts[1].symbol = sym
         THEN <<TradeRow(ts[1].side, ts[1].price, ts[1].qty, k)>> \o FifoRows(Tail(ts), sym, k + 1)
         ELSE FifoRows(Tail(ts), sym, k + 1)

\* get_open_position (db.py:210-212)
get_open_position(sym) == fifo_position(FifoRows(trades, sym, 1))

\* fetch_open_orders (db.py:152-161): the open rows, oldest first; created_at
\* is the rank of the insert, so no two rows share it.
OldestFirst(rows) ==
    [i \in 1..Cardinality(rows) |->
        CHOOSE r \in rows : Cardinality({ q \in rows : q.created < r.created }) = i - 1]

\* rows = await fetch_open_orders(session, limit=200) (main.py:415)
FetchLimit == 200

\* ORDER BY created_at ASC LIMIT :lim (db.py:157-158)
Limit(rows, lim) == SubSeq(rows, 1, Min(lim, Len(rows)))

fetch_open_orders == Limit(OldestFirst({ r \in orders : r.status \in OpenStatuses }), FetchLimit)

\* An UPDATE without the WHERE clause.
set_every_order_status(tbl, cid, status) == { [r EXCEPT !.status = status] : r \in tbl }

\* set_order_status (db.py:142-146): UPDATE ... WHERE client_order_id = :cid
set_order_status(tbl, cid, status) ==
    { IF r.cid = cid THEN [r EXCEPT !.status = status] ELSE r : r \in tbl }

ExchangeCids == { o.cid : o \in exOrders }
TradesWithCid(cid) == { i \in 1..Len(trades) : trades[i].cid = cid }

\* sleep is what is left of the asyncio.sleep the coroutine is in.
IdleWorker == [pc |-> "loop", sleep |-> 0, cid |-> <<>>, side |-> "", qty |-> 0,
               lastRaised |-> <<>>]
IdlePoller == [pc |-> "start", sleep |-> 0, rows |-> <<>>, idx |-> 0]

Init ==
    /\ mode \in {"paper", "live"}
    /\ now = 0
    /\ exOrders = {}
    /\ orders = {}
    /\ trades = <<>>
    /\ worker = [s \in Symbols |-> IdleWorker]
    /\ poller = IdlePoller
    /\ hist = [indet |-> {}, queried |-> {}, failed |-> {}, placed |-> {}, intentOf |-> {}]
    /\ FifoIdle
    /\ ClientIdle
    /\ GuardIdle

\* Wall time passes by one second.
Tick ==
    /\ now < MaxTime
    /\ now' = now + 1
    /\ worker' = [s \in DOMAIN worker |-> [worker[s] EXCEPT !.sleep = Max(0, @ - 1)]]
    /\ poller' = [poller EXCEPT !.sleep = Max(0, @ - 1)]
    /\ UNCHANGED <<mode, exOrders, orders, trades, hist, fifoVars, clientVars, guardVars>>

\* A worker that returns instead of sleeping.
SleepThenReturn(s, secs) == [worker EXCEPT ![s] = [IdleWorker EXCEPT !.pc = "returned"]]

\* The iteration ends in asyncio.sleep(secs); its locals are rebound by the
\* next one.
Sleep(s, secs) == [worker EXCEPT ![s] = [IdleWorker EXCEPT !.sleep = secs,
                                                          !.lastRaised = worker[s].lastRaised]]

\* An iteration raises before it reaches the order: market data, persistence,
\* the account query (main.py:70-73, 87, 146) -> except branch (main.py:321-323).
WorkerIterationFails(s) ==
    /\ worker[s].pc = "loop"
    /\ worker[s].sleep = 0
    /\ worker' = Sleep(s, ErrorSleep)
    /\ UNCHANGED <<mode, now, exOrders, orders, trades, poller, hist, fifoVars, clientVars, guardVars>>

\* HOLD, an ineligible trade or a guard rejection: sleep the heartbeat and
\* start over (main.py:126-128, 185-188, 198-201, 203-209, 234-237, 245-248,
\* 265-269).
WorkerSkips(s) ==
    /\ worker[s].pc = "loop"
    /\ worker[s].sleep = 0
    /\ worker' = Sleep(s, HEARTBEAT)
    /\ UNCHANGED <<mode, now, exOrders, orders, trades, poller, hist, fifoVars, clientVars, guardVars>>

\* The order intent a placement belongs to: a placement that follows a raised
\* placement of the same side, decided on the same trade history, re-submits
\* that intent; any other placement opens an intent of its own.
IntentOf(cid) == (CHOOSE p \in hist.intentOf : p[1] = cid)[2]
IntentFor(s, side, cid) ==
    LET last == worker[s].lastRaised
    IN  IF last # <<>> /\ last[1].side = side /\ last[1].basis = Len(trades)
        THEN IntentOf(last[1].cid)
        ELSE cid

\* The guards passed: the client id is fixed (main.py:271) and the order goes
\* out.  A SELL sells at most the open position (main.py:233-238).
Decide(s, side, qty) ==
    /\ worker[s].pc = "loop"
    /\ worker[s].sleep = 0
    /\ Cardinality(hist.placed) < MaxOrders
    /\ LET pos == get_open_position(s).qty
       IN  side = "SELL" => (pos > 0 /\ qty <= pos)

\* Paper mode (main.py:274-283, 316-319): set_order_status finds no row, the
\* trade is inserted and committed.
WorkerPaperFill(s) ==
    /\ mode = "paper"
    /\ \E side \in {"BUY", "SELL"}, qty \in OrderQtys :
         /\ Decide(s, side, qty)
         /\ LET cid == ClientId(s, now)
            IN  /\ trades' = Append(trades, [symbol |-> s, side |-> side, price |-> FillPrice,
                                             qty |-> qty, cid |-> cid])
                /\ orders' = set_order_status(orders, cid, "FILLED")
                /\ hist' = [hist EXCEPT !.placed = @ \cup {cid},
                                        !.intentOf = @ \cup {<<cid, cid>>}]
                /\ worker' = Sleep(s, HEARTBEAT)
    /\ UNCHANGED <<mode, now, exOrders, poller, fifoVars, clientVars, guardVars>>

\* Live mode: client.new_order is called with the fresh client id
\* (main.py:271, 284-291).  The POST reaches the exchange, which creates the
\* order, or no attempt of the call gets through.
WorkerPlaces(s) ==
    /\ mode = "live"
    /\ \E side \in {"BUY", "SELL"}, qty \in OrderQtys :
         /\ Decide(s, side, qty)
         /\ LET cid == ClientId(s, now)
            IN  /\ worker' = [worker EXCEPT ![s].pc = "awaiting", ![s].cid = cid,
                                ![s].side = side, ![s].qty = qty]
                /\ hist' = [hist EXCEPT !.placed = @ \cup {cid},
                                        !.intentOf = @ \cup {<<cid, IntentFor(s, side, cid)>>}]
                /\ \/ /\ cid \notin ExchangeCids
                      /\ exOrders' = exOrders \cup
                            {[cid |-> cid, sym |-> s, side |-> side, qty |-> qty,
                              status |-> "NEW", executed |-> 0]}
                   \/ exOrders' = exOrders
    /\ UNCHANGED <<mode, now, orders, trades, poller, fifoVars, clientVars, guardVars>>

\* new_order raises -> except branch (main.py:321-323): either the attempts
\* ended in a network fault, and the exchange may hold the order, or the
\* exchange refused the request and holds none.
NewOrderRaises(s) ==
    /\ worker[s].pc = "awaiting"
    /\ \/ hist' = [hist EXCEPT !.indet = @ \cup {worker[s].cid}]
       \/ /\ worker[s].cid \notin ExchangeCids
          /\ hist' = hist
    /\ worker' = [Sleep(s, ErrorSleep) EXCEPT
                    ![s].lastRaised = <<[cid |-> worker[s].cid, side |-> worker[s].side,
                                         basis |-> Len(trades)]>>]
    /\ UNCHANGED <<mode, now, exOrders, orders, trades, poller, fifoVars, clientVars, guardVars>>

\* new_order returns the exchange's acknowledgement (main.py:286-293);
\* set_order_exch_id finds no row; insert_order and commit write the row as
\* NEW (main.py:293-310), the balance snapshot follows (main.py:316-319).
WorkerPersistsOrder(s) ==
    /\ worker[s].pc = "awaiting"
    /\ worker[s].cid \in ExchangeCids
    /\ \A r \in orders : r.cid # worker[s].cid
    /\ orders' = orders \cup
          {[cid |-> worker[s].cid, symbol |-> s, side |-> worker[s].side,
            qty |-> worker[s].qty, status |-> "NEW",
            created |-> Cardinality(orders) + 1]}
    /\ worker' = [Sleep(s, HEARTBEAT) EXCEPT ![s].lastRaised = <<>>]
    /\ UNCHANGED <<mode, now, exOrders, trades, poller, hist, fifoVars, clientVars, guardVars>>

\* new_order returns, then the insert or a commit fails (database error):
\* nothing is written -> except branch (main.py:321-323).
WorkerPersistFails(s) ==
    /\ worker[s].pc = "awaiting"
    /\ worker[s].cid \in ExchangeCids
    /\ worker' = [Sleep(s, ErrorSleep) EXCEPT ![s].lastRaised = <<>>]
    /\ UNCHANGED <<mode, now, exOrders, orders, trades, poller, hist, fifoVars, clientVars, guardVars>>

\* ---- the exchange matches and cancels orders on its own
ExchangeFills ==
    /\ \E o \in exOrders :
         /\ o.status \in {"NEW", "PARTIALLY_FILLED"}
         /\ \E x \in (o.executed + 1)..o.qty :
              exOrders' = (exOrders \ {o}) \cup
                 {[o EXCEPT !.executed = x,
                            !.status = IF x = o.qty THEN "FILLED" ELSE "PARTIALLY_FILLED"]}
    /\ UNCHANGED <<mode, now, orders, trades, worker, poller, hist, fifoVars, clientVars, guardVars>>

\* The exchange ends an open order: canceled, expired or rejected.  Which of
\* the three it reports is drawn when an answer is read (PollerPolls); an
\* order is not queried again once a terminal answer is committed.
ExchangeEnds ==
    /\ \E o \in exOrders :
         /\ o.status \in {"NEW", "PARTIALLY_FILLED"}
         /\ exOrders' = (exOrders \ {o}) \cup {[o EXCEPT !.status = "ENDED"]}
    /\ UNCHANGED <<mode, now, orders, trades, worker, poller, hist, fifoVars, clientVars, guardVars>>

\* ---- order_status_poller
\* The poller returns at once unless MODE is live (main.py:398-402).
PollerStarts ==
    /\ poller.pc = "start"
    /\ poller' = [poller EXCEPT !.pc = IF mode = "live" THEN "idle" ELSE "returned"]
    /\ UNCHANGED <<mode, now, exOrders, orders, trades, worker, hist, fifoVars, clientVars, guardVars>>

PollerSleeps == [IdlePoller EXCEPT !.pc = "idle", !.sleep = PollSec]

\* A pass begins: load the open orders (main.py:413-419); none, or a failing
\* query (main.py:474-476), sends the poller back to sleep.
PollerLoads ==
    /\ poller.pc = "idle"
    /\ poller.sleep = 0
    /\ \/ /\ fetch_open_orders # <<>>
          /\ poller' = [poller EXCEPT !.pc = "query", !.rows = fetch_open_orders, !.idx = 1]
       \/ /\ fetch_open_orders = <<>>
          /\ poller' = PollerSleeps
       \/ poller' = PollerSleeps
    /\ hist' = [hist EXCEPT !.failed = { c \in @ : \E r \in orders : r.cid = c /\ r.status \in OpenStatuses }]
    /\ UNCHANGED <<mode, now, exOrders, orders, trades, worker, fifoVars, clientVars, guardVars>>

\* A pass that is given up after the order at hand.
PollerAbandonsPass == PollerSleeps

\* An average price without the fall-back to the limit price of the row.
avg_px_of_payload(executed, cquote, price, row_price) ==
    IF executed # 0 /\ cquote # 0 THEN cquote \div executed ELSE price

\* avg_px = (cquote / executed) if (executed and cquote) else
\*          (price or o["price"] or 0.0) (main.py:443); the amounts of this
\* model divide evenly.
avg_px(executed, cquote, price, row_price) ==
    IF executed # 0 /\ cquote # 0 THEN cquote \div executed
    ELSE IF price # 0 THEN price
    ELSE IF row_price # 0 THEN row_price
    ELSE 0

\* A trade for whatever quantity the answer says was executed.
WritesTradeOnExecuted(status, executed) == executed > 0

\* if status == "FILLED" and executed > 0: insert_trade(...) (main.py:453)
WritesTrade(status, executed) == status = "FILLED" /\ executed > 0

\* data.get("status") of the answer (main.py:432-433).  held is the status the
\* exchange holds for the order; an answer served from a lagging copy still
\* says NEW for an order that has begun to fill.
ReportedStatus(held, st, end, stale) ==
    IF st = "" THEN ""
    ELSE IF held = "ENDED" THEN end
    ELSE IF stale /\ held = "PARTIALLY_FILLED" THEN "NEW"
    ELSE held

\* After an order of the pass: the next order, or sleep (main.py:421, 472).
PollerAdvances ==
    IF poller.idx < Len(poller.rows)
    THEN [poller EXCEPT !.idx = @ + 1]
    ELSE PollerSleeps

\* One order of the pass (main.py:421-467).  The payload may lack
\* cummulativeQuoteQty and price (read as 0); the row's price is the limit
\* price the worker wrote, FillPrice here.  client.order_status by client id
\* answers with the status and the executed quantity the exchange holds; a
\* payload without a readable executedQty gives 0, one without status and
\* state gives "".  3) persist status transitions, one transaction: the status
\* for NEW and PARTIALLY_FILLED; for a terminal status the trade, if FILLED
\* with executed > 0, and the status; nothing for any other status.
PollerPolls ==
    /\ poller.pc = "query"
    /\ LET row == poller.rows[poller.idx]
       IN  /\ \E o \in exOrders, st \in {"", "answered"}, x \in {0, 1, 2},
                  end \in {"CANCELED", "EXPIRED", "REJECTED"},
                  cquote \in {0, FillPrice, 2 * FillPrice}, price \in {0, FillPrice},
                  stale \in BOOLEAN :
                /\ o.cid = row.cid
                /\ stale => (st # "" /\ o.status = "PARTIALLY_FILLED")
                /\ cquote \in {0, x * FillPrice}
                /\ (st = "" \/ o.status # "FILLED" \/ x = 0) => (cquote = 0 /\ price = 0)
                /\ x \in {o.executed, 0}
                /\ (st = "" \/ o.status # "ENDED") => end = "CANCELED"
                /\ LET status == ReportedStatus(o.status, st, end, stale)
                   IN  /\ poller' = PollerAdvances
                       /\ \/ /\ status \in {"NEW", "PARTIALLY_FILLED"}
                             /\ orders' = set_order_status(orders, row.cid, status)
                             /\ trades' = trades
                          \/ /\ status \in TerminalStatuses
                             /\ trades' = IF WritesTrade(status, x)
                                          THEN Append(trades, [symbol |-> row.symbol,
                                                               side |-> row.side,
                                                               price |-> avg_px(x, cquote, price, FillPrice),
                                                               qty |-> x, cid |-> row.cid])
                                          ELSE trades
                             /\ orders' = set_order_status(orders, row.cid, status)
                          \/ /\ status \notin {"NEW", "PARTIALLY_FILLED"} \cup TerminalStatuses
                             /\ UNCHANGED <<orders, trades>>
           /\ hist' = [hist EXCEPT !.queried = @ \cup ({row.cid} \cap hist.indet)]
    /\ UNCHANGED <<mode, now, exOrders, worker, fifoVars, clientVars, guardVars>>

\* A session whose writes take effect as they are issued.
session_autocommits(committed, pending) == pending

\* `async with SessionLocal() as session` left by an exception before
\* session.commit() (main.py:447-465): the writes issued in it are discarded.
session_closes_uncommitted(committed, pending) == committed

\* The trade insert_trade has added to the session when set_order_status or
\* the commit raises (main.py:453-465), if the answer said FILLED.
PendingTrades(row) ==
    IF \E o \in exOrders : o.cid = row.cid /\ o.status = "FILLED"
    THEN Append(trades, [symbol |-> row.symbol, side |-> row.side, price |-> FillPrice,
                         qty |-> row.qty, cid |-> row.cid])
    ELSE trades

\* The query raises (network, parse) or the transaction fails: nothing is
\* committed, the error is logged, next order (main.py:469-470).
PollerPollRaises ==
    /\ poller.pc = "query"
    /\ trades' = session_closes_uncommitted(trades, PendingTrades(poller.rows[poller.idx]))
    /\ hist' = [hist EXCEPT !.queried = @ \cup ({poller.rows[poller.idx].cid} \cap hist.indet),
                            !.failed = @ \cup {poller.rows[poller.idx].cid}]
    /\ poller' = PollerAdvances
    /\ UNCHANGED <<mode, now, exOrders, orders, worker, fifoVars, clientVars, guardVars>>

WorkerNext(s) ==
    \/ WorkerIterationFails(s)
    \/ WorkerSkips(s)
    \/ WorkerPaperFill(s)
    \/ WorkerPlaces(s)
    \/ NewOrderRaises(s)
    \/ WorkerPersistsOrder(s)
    \/ WorkerPersistFails(s)

PollerNext ==
    \/ PollerStarts
    \/ PollerLoads
    \/ PollerPolls
    \/ PollerPollRaises

Next ==
    \/ Tick
    \/ \E s \in Symbols : WorkerNext(s)
    \/ ExchangeFills
    \/ ExchangeEnds
    \/ PollerNext

Spec == Init /\ [][Next]_vars


\* ---- the poller over a table of many open orders
\* One more open order than a pass loads.
Backlog == FetchLimit + 1

\* Resting limit orders placed in earlier seconds, the k-th in second
\* k - Backlog - 1, each stored NEW by its worker (main.py:295-310).
BacklogOrders ==
    { [cid |-> ClientId("BTCUSDT", k - Backlog - 1), symbol |-> "BTCUSDT", side |-> "BUY",
       qty |-> 2, status |-> "NEW", created |-> k] : k \in 1..Backlog }

\* The exchange still holds them unmatched, but has filled one of them.
BacklogOnExchange(filled) ==
    { [cid |-> r.cid, sym |-> r.symbol, side |-> r.side, qty |-> r.qty,
       status |-> IF r.created = filled THEN "FILLED" ELSE "NEW",
       executed |-> IF r.created = filled THEN r.qty ELSE 0] : r \in BacklogOrders }

\* The poller task is started in live mode on the table an earlier run left:
\* empty, or the resting orders, of which the exchange has filled the oldest
\* or the newest (main.py:486-488).
BacklogInit ==
    /\ mode = "live"
    /\ now = 0
    /\ \/ orders = {} /\ exOrders = {}
       \/ /\ orders = BacklogOrders
          /\ \E filled \in {1, Backlog} : exOrders = BacklogOnExchange(filled)
    /\ trades = <<>>
    /\ worker = [s \in Symbols |-> IdleWorker]
    /\ poller = IdlePoller
    /\ hist = [indet |-> {}, queried |-> {}, failed |-> {}, placed |-> {}, intentOf |-> {}]
    /\ FifoIdle
    /\ ClientIdle
    /\ GuardIdle

\* Every status query succeeds and the exchange leaves the orders as they are.
BacklogNext ==
    \/ Tick
    \/ PollerStarts
    \/ PollerLoads
    \/ PollerPolls

SpecBacklog == BacklogInit /\ [][BacklogNext]_vars

\* ---- claims about placement and reconciliation
OnExchange(cid) == { o \in exOrders : o.cid = cid }
LostPlacements == { c \in hist.indet : OnExchange(c) # {} }
CidsOfIntent(i) == { p[1] : p \in { q \in hist.intentOf : q[2] = i } }

\* C1: once a live placement has raised although the exchange created the
\* order, its order intent has at most one order on the exchange, at most one
\* local Order row and at most one Trade row, whatever the worker and the
\* poller do afterwards.
C1_OneOrderPerIntent ==
    \A c \in LostPlacements :
        LET cids == CidsOfIntent(IntentOf(c))
        IN  /\ Cardinality({ o \in exOrders : o.cid \in cids }) <= 1
            /\ Cardinality({ r \in orders : r.cid \in cids }) <= 1
            /\ Cardinality({ i \in 1..Len(trades) : trades[i].cid \in cids }) <= 1

\* C2: when the worker places an order for a symbol under a new client id,
\* every earlier placement of that symbol that failed indeterminately has had
\* its client id queried by the poller.
C2_QueriedBeforeFreshPlacement ==
    \A c \in hist.indet, d \in hist.placed :
        (d[1] = c[1] /\ d[2] > c[2]) => c \in hist.queried

StillOpen == {"NEW", "PARTIALLY_FILLED"}
BecomesFilled(r) == r.status \in StillOpen /\ [r EXCEPT !.status = "FILLED"] \in orders'
TradeWrittenFor(r) ==
    /\ Len(trades') = Len(trades) + 1
    /\ SubSeq(trades', 1, Len(trades)) = trades
    /\ trades'[Len(trades')].cid = r.cid
    /\ trades'[Len(trades')].qty > 0
    /\ \E o \in exOrders : o.cid = r.cid /\ o.executed = trades'[Len(trades')].qty

\* C3: over all reconciliation passes, failed queries and failed commits
\* included, each client id is on at most one Trade row; the poller writes a
\* Trade row only in the step that turns the local order from open to FILLED,
\* with the executed quantity, which is above zero, and that step writes
\* nothing else to the trades.
C3_OneTradePerOrder ==
    /\ [](\A i, j \in 1..Len(trades) : trades[i].cid = trades[j].cid => i = j)
    /\ [][mode = "live" =>
            /\ trades' # trades =>
                  \E r \in orders : /\ poller.pc = "query"
                                    /\ poller.rows[poller.idx].cid = r.cid
                                    /\ BecomesFilled(r)
                                    /\ TradeWrittenFor(r)
            /\ \A r \in orders : BecomesFilled(r) => (trades' = trades \/ TradeWrittenFor(r))
       ]_vars

\* A pass failed on the order, a later one recorded the fill and its trade.
C3_Witness ==
    \E r \in orders :
        /\ r.status = "FILLED"
        /\ r.cid \in hist.failed
        /\ Cardinality(TradesWithCid(r.cid)) = 1

(***************************************************************************)
(* RiskGate and the guards of a SymbolWorker iteration: policy_risk,       *)
(* executor.round_dec, agent_llm._enforce_dca, main.run_symbol 112-271     *)
(***************************************************************************)
\* ---- exact arithmetic.  A number is the fraction [n, d] in lowest terms,
\* d > 0; the floats of the code are taken as the reals they stand for.
RECURSIVE Gcd(_, _)
Gcd(a, b) == IF b = 0 THEN a ELSE Gcd(b, a % b)
Abs(x) == IF x < 0 THEN -x ELSE x
Rat(n, d) ==
    IF n = 0 THEN [n |-> 0, d |-> 1]
    ELSE LET g == Gcd(Abs(n), d) IN [n |-> n \div g, d |-> d \div g]
Whole(k) == Rat(k, 1)
RMul(a, b) == Rat(a.n * b.n, a.d * b.d)
RDiv(a, b) == Rat(a.n * b.d, a.d * b.n)
RSub(a, b) == Rat(a.n * b.d - b.n * a.d, a.d * b.d)
RAdd(a, b) == Rat(a.n * b.d + b.n * a.d, a.d * b.d)
RLt(a, b) == a.n * b.d < b.n * a.d
RLe(a, b) == a.n * b.d <= b.n * a.d
RMin(a, b) == IF RLe(a, b) THEN a ELSE b
RMax(a, b) == IF RLe(a, b) THEN b ELSE a
RAbs(a) == [n |-> Abs(a.n), d |-> a.d]
Bps(k) == Rat(k, 10000)
RECURSIVE Pow10(_)
Pow10(k) == IF k = 0 THEN 1 ELSE 10 * Pow10(k - 1)

\* A rounding that goes away from zero to the next multiple of 10^-dp.
round_dec_up(v, dp) ==
    LET p == Pow10(dp)
    IN  Rat(IF v.n >= 0 THEN -((-(v.n * p)) \div v.d) ELSE (v.n * p) \div v.d, p)

\* round_dec (executor.py:5-7): Decimal(v).quantize(10^-dp, ROUND_DOWN), the
\* multiple of 10^-dp next to v towards zero; callers read the string back
\* with float().
round_dec(v, dp) ==
    LET p == Pow10(dp)
    IN  Rat(IF v.n >= 0 THEN (v.n * p) \div v.d ELSE -((-(v.n * p)) \div v.d), p)

\* make_limit_price (executor.py:9-15)
make_limit_price(price, side, bps) ==
    IF side = "BUY" THEN RMul(price, Rat(10000 + bps, 10000))
    ELSE IF side = "SELL" THEN RMul(price, Rat(10000 - bps, 10000))
    ELSE price

\* config.json as run_symbol reads it.  The entries read with .get carry the
\* default of the code: dca_step_bps 20 (main.py:112), min_notional_usd 5
\* (main.py:138), fee_bps 20, min_profit_bps 15, time_stop_min 90,
\* stop_loss_pct 0.008 (main.py:251-254).  round_qty_dp and fee_bps of a run
\* are part of what the iteration observes (gIn).
CFG ==
    [min_confidence        |-> Rat(55, 100),
     daily_max_loss_usd    |-> Whole(50),
     cooldown_after_loss_s |-> 60,
     max_per_trade_usd     |-> Whole(10),
     slippage_bps          |-> 5,
     round_price_dp        |-> 2,
     min_notional_usd      |-> Whole(5),
     min_profit_bps        |-> 15,
     dca_step_bps          |-> 20,
     time_stop_min         |-> 90,
     stop_loss_pct         |-> Rat(8, 1000)]

\* An eligibility check without the cooldown.
allow_trade_no_cooldown(decision_conf, rs, t) ==
    IF RLt(decision_conf, CFG.min_confidence) THEN FALSE
    ELSE IF RLe(rs.today_loss, RSub(Whole(0), RAbs(CFG.daily_max_loss_usd))) THEN FALSE
    ELSE TRUE

\* allow_trade (policy_risk.py:13-20); t is time.time().
allow_trade(decision_conf, rs, t) ==
    IF RLt(decision_conf, CFG.min_confidence) THEN FALSE
    ELSE IF RLe(rs.today_loss, RSub(Whole(0), RAbs(CFG.daily_max_loss_usd))) THEN FALSE
    ELSE IF t - rs.last_loss_ts < CFG.cooldown_after_loss_s THEN FALSE
    ELSE TRUE

\* size_for_trade (policy_risk.py:22-30); available_quote is <<>> for None.
size_for_trade(price, rs, available_quote) ==
    LET max_per == CFG.max_per_trade_usd
        avail   == IF available_quote = Nothing THEN rs.usdt_balance ELSE available_quote[1]
        budget  == RMin(max_per, avail)
    IN  IF RLe(budget, Whole(0)) \/ RLe(price, Whole(0)) THEN Whole(0)
        ELSE RDiv(budget, price)

\* A DCA rule that lets every price through.
AboveDcaNever(price, avg, step_bps) == FALSE

\* px > avg * (1.0 - dca_step_bps / 10000.0) (agent_llm.py:77-78, main.py:204-205)
AboveDcaThreshold(price, avg, step_bps) == RLt(RMul(avg, Rat(10000 - step_bps, 10000)), price)

\* _enforce_dca (agent_llm.py:70-82): the action after the downgrade.
enforce_dca(price, pos, action, step_bps) ==
    IF RLt(Whole(0), pos.qty) /\ RLt(Whole(0), pos.avg) /\ action = "BUY"
       /\ AboveDcaThreshold(price, pos.avg, step_bps)
    THEN "HOLD" ELSE action

\* (x // unit) * unit with unit = 10 ** (-dp) (main.py:191-192)
floor_to_unit(x, dp) == LET p == Pow10(dp) IN Rat((x.n * p) \div x.d, p)

\* A minimum check that lets every order through.
BelowMinimumNever(px, qty) == FALSE

\* qty_val <= 0 or notional < min_notional (main.py:198, 217, 245)
BelowMinimum(px, qty) ==
    RLe(qty, Whole(0)) \/ RLt(RMul(px, qty), CFG.min_notional_usd)

\* breakeven_px = avg_entry * (1.0 + (2.0 * fee_bps + min_profit_bps) / 10000.0)
\* (main.py:256)
Breakeven(avg, fee_bps) == RMul(avg, Rat(10000 + 2 * fee_bps + CFG.min_profit_bps, 10000))

\* allow_stop (main.py:259)
AllowStop(price, avg) == RLe(price, RMul(avg, RSub(Whole(1), RAbs(CFG.stop_loss_pct))))

\* allow_time (main.py:260-263): age in minutes against time_stop_min
AllowTime(age_s) == RLe(Whole(CFG.time_stop_min), Rat(age_s, 60))

\* A profit floor that no stop lifts.
ProfitFloorIgnoresStops(price, pos, fee_bps) == RLt(price, Breakeven(pos.avg, fee_bps))

\* spot_px < breakeven_px and not (allow_stop or allow_time) (main.py:265)
ProfitFloorBlocks(price, pos, fee_bps) ==
    /\ RLt(price, Breakeven(pos.avg, fee_bps))
    /\ ~(AllowStop(price, pos.avg) \/ AllowTime(pos.age_s))

Skipped(reason) == [result |-> "skipped", reason |-> reason, px |-> Whole(0), qty |-> Whole(0)]
SizedOrder(px, qty) == [result |-> "order", reason |-> "", px |-> px, qty |-> qty]

\* px = float(round_dec(limit_px, dp_price)) (main.py:170-175, 224-225)
LimitPx(in, side) ==
    round_dec(make_limit_price(in.price, side, CFG.slippage_bps), CFG.round_price_dp)

\* A budget that does not look at the wallet.
BuyBudgetOfMaxPerTrade(in) ==
    RMul(CFG.max_per_trade_usd, RMax(Whole(0), RSub(Whole(1), Bps(in.fee_bps))))

\* budget of a BUY (main.py:178-182)
BuyBudget(in) ==
    LET wallet_q == IF in.mode = "live" THEN in.free_quote ELSE in.rs.usdt_balance
    IN  RMul(RMin(wallet_q, CFG.max_per_trade_usd),
             RMax(Whole(0), RSub(Whole(1), Bps(in.fee_bps))))

\* qty_val of a BUY as first fitted (main.py:190-194)
BuyQty(in) ==
    round_dec(floor_to_unit(RDiv(BuyBudget(in), LimitPx(in, "BUY")), in.round_qty_dp),
              in.round_qty_dp)

\* qty_val after one step is shaved (main.py:213-215)
ShavedQty(in) ==
    round_dec(RMax(Whole(0), RSub(BuyQty(in), Rat(1, Pow10(in.round_qty_dp)))),
              in.round_qty_dp)

\* The BUY branch of the sizing (main.py:172-220).
SizeBuy(in) ==
    LET px == LimitPx(in, "BUY")
    IN  IF RLt(BuyBudget(in), CFG.min_notional_usd) \/ RLe(px, Whole(0)) THEN Skipped("budget")
        ELSE IF BelowMinimum(px, BuyQty(in)) THEN Skipped("min_notional")
        ELSE IF RLt(Whole(0), in.pos.qty) /\ RLt(Whole(0), in.pos.avg)
                /\ AboveDcaThreshold(in.price, in.pos.avg, CFG.dca_step_bps)
             THEN Skipped("dca")
        \* notional > free_quote - 1e-6: every amount here is a multiple of
        \* 10^-4, so this is notional >= free_quote
        ELSE IF in.mode = "live" /\ RLe(in.free_quote, RMul(px, BuyQty(in)))
             THEN IF BelowMinimum(px, ShavedQty(in)) THEN Skipped("shaved_min_notional")
                  ELSE SizedOrder(px, ShavedQty(in))
        ELSE SizedOrder(px, BuyQty(in))

\* A SELL quantity that is not capped by the open position.
SellQtyOfTarget(in) ==
    round_dec(size_for_trade(LimitPx(in, "SELL"), in.rs, Some(CFG.max_per_trade_usd)),
              in.round_qty_dp)

\* qty_val of a SELL (main.py:228-241); the position is the one read again
\* at main.py:233
SellQty(in) ==
    LET qty_t == size_for_trade(LimitPx(in, "SELL"), in.rs, Some(CFG.max_per_trade_usd))
        qty_w == IF in.mode = "live" THEN RMin(qty_t, in.free_base) ELSE qty_t
    IN  round_dec(RMin(qty_w, in.pos_sell.qty), in.round_qty_dp)

\* The SELL branch of the sizing (main.py:222-269).
SizeSell(in) ==
    LET px == LimitPx(in, "SELL")
    IN  IF RLe(in.pos_sell.qty, Whole(0)) THEN Skipped("no_position")
        ELSE IF BelowMinimum(px, SellQty(in)) THEN Skipped("min_notional")
        ELSE IF ProfitFloorBlocks(in.price, in.pos_sell, in.fee_bps) THEN Skipped("profit_floor")
        ELSE SizedOrder(px, SellQty(in))

\* ---- what an iteration can observe
GuardPrices == {Rat(300, 100), Rat(9920, 100), Rat(9980, 100), Rat(9981, 100),
                Rat(10030, 100), Rat(10055, 100)}
Flat == [qty |-> Whole(0), avg |-> Whole(0), age_s |-> 0]
GuardPositions ==
    {Flat,
     [qty |-> Rat(25, 10), avg |-> Whole(3), age_s |-> 60],
     [qty |-> Rat(255, 1000), avg |-> Whole(100), age_s |-> 60],
     [qty |-> Rat(255, 1000), avg |-> Whole(100), age_s |-> 5400]}
GuardWallets == {Whole(4), Whole(6), Whole(9), Whole(20)}
\* RiskState as allow_trade may be handed it: today_loss, last_loss_ts
GuardRiskStates == {<<0, 0>>, <<-49, 0>>, <<-50, 0>>, <<0, 99940>>, <<0, 99970>>}

\* The limit price of a BUY order of the symbol that is still open in the
\* orders table (NEW, written by an earlier iteration at main.py:295-310), or
\* none.  run_symbol reads the position from the trades table only
\* (main.py:87) and never the orders table.
GuardPendingBuys == {<<>>, <<Whole(100)>>}

GuardInit ==
    /\ gIn \in [mode         : {"paper", "live"},
                action       : {"HOLD", "BUY", "SELL"},
                confidence   : {Rat(54, 100), Rat(55, 100)},
                price        : GuardPrices,
                pos          : GuardPositions,
                pos_sell     : GuardPositions,
                wallet       : GuardWallets,
                free_base    : {Whole(0), Whole(5)},
                risk         : GuardRiskStates,
                round_qty_dp : {0, 2},
                fee_bps      : {0, 20},
                emoji_bound  : BOOLEAN,
                pending_buy  : GuardPendingBuys]
    /\ gIn.action # "SELL" => gIn.pos_sell = gIn.pos
    /\ gIn.pending_buy # <<>> => (gIn.mode = "live" /\ gIn.action = "BUY")
    /\ gPc = "decide"
    /\ gLoc = [action |-> "", px |-> Whole(0), qty |-> Whole(0)]
    /\ gOut = <<>>
    /\ FifoIdle
    /\ ClientIdle
    /\ SysIdle

\* The observation with the names the code uses.
Observed ==
    [mode |-> gIn.mode, price |-> gIn.price, pos |-> gIn.pos, pos_sell |-> gIn.pos_sell,
     free_quote |-> gIn.wallet, free_base |-> gIn.free_base,
     rs |-> [usdt_balance |-> gIn.wallet, today_loss |-> Whole(gIn.risk[1]),
             last_loss_ts |-> gIn.risk[2]],
     round_qty_dp |-> gIn.round_qty_dp, fee_bps |-> gIn.fee_bps, now |-> 100000]

\* decision.action as llm_decide returns it (agent_llm.py:127-129)
DecisionAction == enforce_dca(gIn.price, gIn.pos, gIn.action, CFG.dca_step_bps)

\* An iteration that goes into the error backoff however it ends.
OutcomeWithBackoff(result, reason) ==
    <<[result |-> result, reason |-> reason, side |-> gLoc.action,
       px |-> gLoc.px, qty |-> gLoc.qty,
       order_rows |-> <<>>, trade_rows |-> <<>>, rs |-> Observed.rs,
       sleep |-> ErrorSleep]>>

\* How an iteration ends when it wrote no order and no trade: the rows it
\* wrote (none), the RiskState it leaves, and the sleep it goes into,
\* HEARTBEAT after a skip (main.py:127) and max(HEARTBEAT, 5) after a raise
\* (main.py:323).
Outcome(result, reason) ==
    <<[result |-> result, reason |-> reason, side |-> gLoc.action,
       px |-> gLoc.px, qty |-> gLoc.qty,
       order_rows |-> <<>>, trade_rows |-> <<>>, rs |-> Observed.rs,
       sleep |-> IF result = "raised" THEN ErrorSleep ELSE HEARTBEAT]>>

\* rs.usdt_balance += (1 if SELL else -1) * price * qty (main.py:281); no
\* other field of the RiskState is assigned anywhere in run_symbol.
rs_after_paper_fill(rs, side, px, qty) ==
    [rs EXCEPT !.usdt_balance =
        IF side = "SELL" THEN RAdd(@, RMul(px, qty)) ELSE RSub(@, RMul(px, qty))]

\* What step 7 writes (main.py:273-310).  Paper: set_order_status updates
\* the rows with the fresh client id, of which there is none, and the trade
\* is inserted.  Live: exch_id is the orderId of the acknowledgement or ""
\* (main.py:293); set_order_exch_id finds no row; the order row is inserted
\* as NEW with that exch_id.
Execution(exch_id) ==
    IF gIn.mode = "paper"
    THEN [Outcome("submitted", "")[1] EXCEPT
            !.trade_rows = <<[side |-> gLoc.action, price |-> gLoc.px, qty |-> gLoc.qty,
                              order_client_id |-> "ai_sym_ts"]>>,
            !.rs = rs_after_paper_fill(Observed.rs, gLoc.action, gLoc.px, gLoc.qty)]
    ELSE [Outcome("submitted", "")[1] EXCEPT
            !.order_rows = <<[side |-> gLoc.action, price |-> gLoc.px, qty |-> gLoc.qty,
                              status |-> "NEW", client_order_id |-> "ai_sym_ts",
                              exch_order_id |-> exch_id]>>]

\* llm_decide returns (main.py:113)
GuardDecides ==
    /\ gPc = "decide"
    /\ gLoc' = [gLoc EXCEPT !.action = DecisionAction]
    /\ gPc' = "log"
    /\ UNCHANGED <<gIn, gOut, fifoVars, clientVars, sysVars>>

\* No branch of main.py:116-121 binds action_emoji for a SELL with an open
\* position; logging.info then raises unless an earlier iteration bound it.
EmojiUnbound == gLoc.action = "SELL" /\ gIn.pos.qty # Whole(0) /\ ~gIn.emoji_bound

GuardLogRaises ==
    /\ gPc = "log"
    /\ EmojiUnbound
    /\ gOut' = Outcome("raised", "action_emoji")
    /\ gPc' = "done"
    /\ UNCHANGED <<gIn, gLoc, fifoVars, clientVars, sysVars>>

\* the heartbeat log (main.py:116-123)
GuardLogs ==
    /\ gPc = "log"
    /\ ~EmojiUnbound
    /\ gPc' = "gate"
    /\ UNCHANGED <<gIn, gLoc, gOut, fifoVars, clientVars, sysVars>>

Allowed == allow_trade(gIn.confidence, Observed.rs, Observed.now)

\* HOLD or not allowed: sleep and continue (main.py:126-128)
GuardHolds ==
    /\ gPc = "gate"
    /\ gLoc.action = "HOLD" \/ ~Allowed
    /\ gOut' = Outcome("skipped", IF gLoc.action = "HOLD" THEN "hold" ELSE "not_allowed")
    /\ gPc' = "done"
    /\ UNCHANGED <<gIn, gLoc, fifoVars, clientVars, sysVars>>

GuardAllows ==
    /\ gPc = "gate"
    /\ ~(gLoc.action = "HOLD" \/ ~Allowed)
    /\ gPc' = "sizing"
    /\ UNCHANGED <<gIn, gLoc, gOut, fifoVars, clientVars, sysVars>>

\* client.account raises in live mode (main.py:146)
GuardAccountRaises ==
    /\ gPc = "sizing"
    /\ gIn.mode = "live"
    /\ gOut' = Outcome("raised", "account")
    /\ gPc' = "done"
    /\ UNCHANGED <<gIn, gLoc, fifoVars, clientVars, sysVars>>

\* sizing and the guards on the sized order (main.py:170-269)
GuardSizes ==
    /\ gPc = "sizing"
    /\ LET r == IF gLoc.action = "BUY" THEN SizeBuy(Observed) ELSE SizeSell(Observed)
       IN  IF r.result = "skipped"
           THEN /\ gOut' = Outcome("skipped", r.reason)
                /\ gPc' = "done"
                /\ UNCHANGED gLoc
           ELSE /\ gLoc' = [gLoc EXCEPT !.px = r.px, !.qty = r.qty]
                /\ gPc' = "execute"
                /\ UNCHANGED gOut
    /\ UNCHANGED <<gIn, fifoVars, clientVars, sysVars>>

\* the order goes out: paper fill or client.new_order; the acknowledgement
\* of a live order carries an orderId or none (main.py:271-319)
GuardExecutes ==
    /\ gPc = "execute"
    /\ \E exch_id \in {"", "7001"} :
         /\ gIn.mode = "paper" => exch_id = ""
         /\ gOut' = <<Execution(exch_id)>>
    /\ gPc' = "done"
    /\ UNCHANGED <<gIn, gLoc, fifoVars, clientVars, sysVars>>

\* Step 7 or 8 raises -> except branch (main.py:321-323): before anything is
\* committed (client.new_order, the payload's shape, insert, first commit),
\* or in the balance snapshot (main.py:317-318) after the trade or the order
\* row is committed.
GuardExecuteRaises ==
    /\ gPc = "execute"
    /\ \/ gOut' = Outcome("raised", "execute")
       \/ \E exch_id \in {"", "7001"} :
            /\ gIn.mode = "paper" => exch_id = ""
            /\ gOut' = <<[Execution(exch_id) EXCEPT !.result = "raised", !.reason = "snapshot",
                                                     !.sleep = ErrorSleep]>>
    /\ gPc' = "done"
    /\ UNCHANGED <<gIn, gLoc, fifoVars, clientVars, sysVars>>

GuardNext ==
    \/ GuardDecides
    \/ GuardLogRaises
    \/ GuardLogs
    \/ GuardHolds
    \/ GuardAllows
    \/ GuardAccountRaises
    \/ GuardSizes
    \/ GuardExecutes
    \/ GuardExecuteRaises

SpecGuards == GuardInit /\ [][GuardNext]_vars

Submitted == gOut # <<>> /\ gOut[1].result = "submitted"
SkippedFor(reason) == gOut # <<>> /\ gOut[1].result = "skipped" /\ gOut[1].reason = reason

\* the quote balance the BUY sizing reads: free_quote in live mode,
\* rs.usdt_balance in paper mode (main.py:178)
QuoteBalance == IF gIn.mode = "live" THEN Observed.free_quote ELSE Observed.rs.usdt_balance

\* the values the sizing hands to round_dec for the decided side
RoundedInputs ==
    IF gLoc.action = "BUY"
    THEN {<<make_limit_price(gIn.price, "BUY", CFG.slippage_bps), CFG.round_price_dp>>,
          <<RDiv(BuyBudget(Observed), LimitPx(Observed, "BUY")), gIn.round_qty_dp>>}
    ELSE IF gLoc.action = "SELL"
    THEN {<<make_limit_price(gIn.price, "SELL", CFG.slippage_bps), CFG.round_price_dp>>,
          <<RMin(size_for_trade(LimitPx(Observed, "SELL"), Observed.rs, Some(CFG.max_per_trade_usd)),
                 gIn.pos_sell.qty), gIn.round_qty_dp>>}
    ELSE {}

\* C13: a submitted BUY has px * qty <= min(max_per_trade_usd, quote balance),
\* a submitted SELL has px * qty <= max_per_trade_usd, and round_dec never
\* returns more than the non-negative value it is given.
C13_NotionalWithinBudget ==
    /\ (Submitted /\ gOut[1].side = "BUY") =>
           RLe(RMul(gOut[1].px, gOut[1].qty), RMin(CFG.max_per_trade_usd, QuoteBalance))
    /\ (Submitted /\ gOut[1].side = "SELL") =>
           RLe(RMul(gOut[1].px, gOut[1].qty), CFG.max_per_trade_usd)
    /\ gPc \in {"execute", "done"} =>
           \A a \in RoundedInputs :
               RLe(Whole(0), a[1]) => RLe(round_dec(a[1], a[2]), a[1])

\* max_per_trade_usd 10, price 3, no quantity decimals: 3 units are bought.
C13_Witness ==
    /\ Submitted
    /\ gOut[1].side = "BUY"
    /\ gIn.price = Whole(3)
    /\ gIn.round_qty_dp = 0
    /\ RLe(CFG.max_per_trade_usd, QuoteBalance)
    /\ gOut[1].px = Whole(3)
    /\ gOut[1].qty = Whole(3)

LowConfidence == RLt(gIn.confidence, CFG.min_confidence)
LossCapReached == RLe(Observed.rs.today_loss, RSub(Whole(0), CFG.daily_max_loss_usd))
InCooldown == Observed.now - Observed.rs.last_loss_ts < CFG.cooldown_after_loss_s

\* C14: no order is submitted in an iteration whose decision confidence is
\* below min_confidence, or whose RiskState has today's loss at the daily cap,
\* or whose RiskState has a last loss fewer than cooldown_after_loss_s seconds
\* ago; in every other case allow_trade returns true and the iteration goes on
\* to the sizing.
C14_IneligibleNeverSubmits ==
    /\ (gPc \in {"sizing", "execute"} \/ Submitted) =>
           ~(LowConfidence \/ LossCapReached \/ InCooldown)
    /\ gPc # "decide" => (Allowed <=> ~(LowConfidence \/ LossCapReached \/ InCooldown))
    /\ SkippedFor("not_allowed") => (LowConfidence \/ LossCapReached \/ InCooldown)

\* A confident BUY or SELL half a minute after a loss is turned away.
C14_Witness ==
    /\ SkippedFor("not_allowed")
    /\ InCooldown
    /\ ~LowConfidence
    /\ ~LossCapReached

\* price and quantity of the order as first rounded, before any guard
FirstRounded ==
    IF gLoc.action = "BUY"
    THEN [px |-> LimitPx(Observed, "BUY"), qty |-> BuyQty(Observed)]
    ELSE [px |-> LimitPx(Observed, "SELL"), qty |-> SellQty(Observed)]

\* C15: every submitted order has rounded price times rounded quantity
\* >= min_notional_usd and quantity > 0; an iteration whose rounded order is
\* below the minimum submits nothing.
C15_MinNotionalOrNothing ==
    /\ Submitted =>
           /\ RLe(CFG.min_notional_usd, RMul(gOut[1].px, gOut[1].qty))
           /\ RLt(Whole(0), gOut[1].qty)
    /\ (gPc \in {"execute", "done"} /\ gLoc.action \in {"BUY", "SELL"}
        /\ RLt(RMul(FirstRounded.px, FirstRounded.qty), CFG.min_notional_usd)) =>
           /\ gPc = "done"
           /\ ~Submitted

\* A BUY whose budget covers the minimum but whose whole-unit quantity does
\* not is dropped.
C15_Witness ==
    /\ SkippedFor("min_notional")
    /\ gLoc.action = "BUY"
    /\ RLe(CFG.min_notional_usd, BuyBudget(Observed))
    /\ RLt(Whole(0), FirstRounded.qty)
    /\ RLt(RMul(FirstRounded.px, FirstRounded.qty), CFG.min_notional_usd)

\* the market price is above avg_entry * (1 - dca_step_bps / 10000) of the
\* position the iteration read
PriceAboveDcaStep ==
    /\ RLt(Whole(0), gIn.pos.qty)
    /\ RLt(RMul(gIn.pos.avg, RSub(Whole(1), Bps(CFG.dca_step_bps))), gIn.price)

\* C16: while the position read by the iteration has quantity > 0, no BUY is
\* submitted at a market price above avg_entry * (1 - dca_step_bps / 10000),
\* whatever action and confidence the model answered.
C16_NoBuyAboveDcaStep ==
    PriceAboveDcaStep =>
        /\ ~(Submitted /\ gOut[1].side = "BUY")
        /\ ~(gPc = "execute" /\ gLoc.action = "BUY")

\* avg_entry 100, step 20 bps: a confident BUY answered at 99.81 is not
\* submitted.
C16_Witness ==
    /\ gPc = "done"
    /\ gIn.action = "BUY"
    /\ ~LowConfidence
    /\ Allowed
    /\ gIn.pos.avg = Whole(100)
    /\ gIn.price = Rat(9981, 100)
    /\ PriceAboveDcaStep
    /\ gOut[1].result = "skipped"

\* price >= breakeven, or price <= the stop-loss level, or the oldest open lot
\* is at least time_stop_min minutes old, for the position read at main.py:233
AtOrAboveBreakeven ==
    RLe(RMul(gIn.pos_sell.avg, Rat(10000 + 2 * gIn.fee_bps + CFG.min_profit_bps, 10000)),
        gIn.price)
StopLossHit == RLe(gIn.price, RMul(gIn.pos_sell.avg, RSub(Whole(1), CFG.stop_loss_pct)))
TimeStopHit == gIn.pos_sell.age_s >= 60 * CFG.time_stop_min

\* C17: a SELL that reaches the profit-floor guard passes it exactly when the
\* price is at or above breakeven, or the stop-loss level is hit, or the
\* time stop is hit.
C17_ProfitFloorOrStop ==
    /\ (gLoc.action = "SELL" /\ (gPc = "execute" \/ Submitted)) =>
           (AtOrAboveBreakeven \/ StopLossHit \/ TimeStopHit)
    /\ SkippedFor("profit_floor") =>
           ~(AtOrAboveBreakeven \/ StopLossHit \/ TimeStopHit)
    /\ (gLoc.action = "SELL" /\ gPc = "done" /\ gOut[1].result = "skipped"
        /\ RLt(Whole(0), gIn.pos_sell.qty)
        /\ RLe(CFG.min_notional_usd, RMul(FirstRounded.px, FirstRounded.qty))
        /\ gOut[1].reason \notin {"hold", "not_allowed"}) =>
           SkippedFor("profit_floor")

\* avg_entry 100, fee 20 bps, min profit 15 bps: a SELL at 100.3 one minute
\* into the position is not submitted.
C17_Witness ==
    /\ SkippedFor("profit_floor")
    /\ gIn.pos_sell.avg = Whole(100)
    /\ gIn.fee_bps = 20
    /\ gIn.price = Rat(10030, 100)
    /\ ~StopLossHit
    /\ ~TimeStopHit

\* C18: an order row whose status is FILLED, CANCELED, EXPIRED or REJECTED
\* keeps that status in every step of the workers, the poller and the
\* exchange, and every order row carries one of the six statuses.
C18_TerminalIsFinal ==
    /\ [](\A r \in orders :
            r.status \in {"NEW", "PARTIALLY_FILLED", "FILLED", "CANCELED", "EXPIRED", "REJECTED"})
    /\ [][\A r \in orders :
            r.status \in {"FILLED", "CANCELED", "EXPIRED", "REJECTED"} =>
                \E q \in orders' : q.cid = r.cid /\ q.status = r.status]_vars

\* A pass is querying an open order while an earlier order is already
\* EXPIRED locally.
C18_Witness ==
    /\ poller.pc = "query"
    /\ \E r, q \in orders :
         /\ r.status = "EXPIRED"
         /\ q.status = "NEW"
         /\ poller.rows[poller.idx].cid = q.cid

\* C19: whatever happens to one order of a pass, a failing query or
\* transaction included, the pass moves on to the next order it loaded, ends
\* only after the last one, and then sleeps poll_sec, after which the next
\* pass can begin.
C19_FailureIsIsolated ==
    /\ [][(poller.pc = "query" /\ poller' # poller) =>
             IF poller.idx < Len(poller.rows)
             THEN /\ poller'.pc = "query"
                  /\ poller'.rows = poller.rows
                  /\ poller'.idx = poller.idx + 1
             ELSE /\ poller'.pc = "idle"
                  /\ poller'.sleep = PollSec]_vars
    /\ []((mode = "live" /\ poller.pc = "idle" /\ poller.sleep = 0) => ENABLED PollerLoads)

\* The first pass that finds orders finds two: the query of the older one
\* fails and leaves it NEW, the younger one is recorded FILLED in the same
\* pass, and the poller sleeps poll_sec.  (At second 2 no earlier pass can
\* have loaded an order: it would still be asleep.)
C19_Witness ==
    /\ now = 2
    /\ poller.pc = "idle"
    /\ poller.sleep = PollSec
    /\ \E a, b \in orders :
         /\ a.created < b.created
         /\ a.cid \in hist.failed
         /\ a.status = "NEW"
         /\ b.status = "FILLED"

\* ---- the worker loop on its own, with time passing and the event loop
\* resuming a coroutine whose sleep is over.  The poller and the exchange
\* never write the worker's state or the clock.
WorkerLoopNext ==
    \/ Tick
    \/ \E s \in Symbols : WorkerNext(s)

SpecWorkerLoop ==
    /\ Init
    /\ [][WorkerLoopNext]_vars
    /\ WF_vars(Tick)
    /\ \A s \in Symbols : WF_vars(WorkerNext(s))

\* in the asyncio.sleep of the except branch, not a second of it gone
InErrorSleep(s) == worker[s].pc = "loop" /\ worker[s].sleep = ErrorSleep
\* at the top of 'while True'
AtLoopTop(s) == worker[s].pc = "loop" /\ worker[s].sleep = 0

\* C20: a worker never leaves its loop; each step of an iteration that raises
\* (before the order, in the placement, in the persistence) puts the worker
\* into a sleep of max(HEARTBEAT, 5) seconds; when that sleep fits into the
\* modelled time the worker gets back to the top of the loop, and from the
\* top of the loop it starts an iteration.
C20_WorkerSurvivesFailure ==
    /\ [](\A s \in Symbols : worker[s].pc \in {"loop", "awaiting"})
    /\ [][\A s \in Symbols :
            (WorkerIterationFails(s) \/ NewOrderRaises(s) \/ WorkerPersistFails(s)) =>
                (worker'[s].pc = "loop" /\ worker'[s].sleep = ErrorSleep)]_vars
    /\ \A s \in Symbols : (InErrorSleep(s) /\ now + ErrorSleep <= MaxTime) ~> AtLoopTop(s)
    /\ \A s \in Symbols : AtLoopTop(s) ~> ~AtLoopTop(s)

\* A placement raised in second 0; five seconds later the worker is at the
\* top of its loop again.
C20_Witness ==
    \E s \in Symbols :
        /\ AtLoopTop(s)
        /\ worker[s].lastRaised # <<>>
        /\ now = ErrorSleep

\* ---- the workers of two configured symbols, one run_symbol task each
\* (main.py:482), with time passing; both share the tables and the exchange.
WorkerSymbols == {"BTCUSDT", "ETHUSDT"}

WorkersInit ==
    /\ mode \in {"paper", "live"}
    /\ now = 0
    /\ exOrders = {}
    /\ orders = {}
    /\ trades = <<>>
    /\ worker = [s \in WorkerSymbols |-> IdleWorker]
    /\ poller = IdlePoller
    /\ hist = [indet |-> {}, queried |-> {}, failed |-> {}, placed |-> {}, intentOf |-> {}]
    /\ FifoIdle
    /\ ClientIdle
    /\ GuardIdle

WorkersNext ==
    \/ Tick
    \/ \E s \in WorkerSymbols : WorkerNext(s)

SpecWorkers == WorkersInit /\ [][WorkersNext]_vars

\* C21: no placement, by the same worker in a later iteration or by the
\* worker of another symbol, uses a client id an earlier placement used; the
\* id is fixed when the request goes out, so the row written after the
\* acknowledgement carries the id the exchange was sent, and no two rows, no
\* two exchange orders and no two paper trades share a client id.
C21_ClientIdsUnique ==
    /\ [][\A s \in WorkerSymbols :
            /\ WorkerPlaces(s) => worker'[s].cid \notin hist.placed
            /\ WorkerPaperFill(s) => trades'[Len(trades')].cid \notin hist.placed
            /\ WorkerPersistsOrder(s) =>
                   \E r \in orders' \ orders, o \in exOrders :
                       r.cid = worker[s].cid /\ o.cid = r.cid /\ o.sym = s]_vars
    /\ [](/\ \A r, q \in orders : r.cid = q.cid => r = q
          /\ \A o, q \in exOrders : o.cid = q.cid => o = q
          /\ \A i, j \in 1..Len(trades) : trades[i].cid = trades[j].cid => i = j
          /\ \A s \in WorkerSymbols : worker[s].pc = "awaiting" => worker[s].cid \in hist.placed)

\* The workers of two symbols placed in the same second, under two ids.
C21_Witness ==
    \E r, q \in orders :
        /\ r.symbol # q.symbol
        /\ r.cid # q.cid
        /\ r.cid[2] = q.cid[2]

\* C22: every order row a live iteration writes carries the client id and a
\* non-empty exchange-assigned id.
C22_RowsCarryExchangeId ==
    gOut # <<>> =>
        \A i \in 1..Len(gOut[1].order_rows) :
            /\ gOut[1].order_rows[i].status = "NEW"
            /\ gOut[1].order_rows[i].client_order_id # ""
            /\ gOut[1].order_rows[i].exch_order_id # ""

\* ---- llm_decide (agent_llm.py:96-136) on its own: what the model server
\* answered, and the decision handed to the worker.
\* A float as Python compares it: every comparison with nan is false.
Num(v) == [nan |-> FALSE, v |-> v]
NaN == [nan |-> TRUE, v |-> Whole(0)]
FLess(a, b) == ~a.nan /\ ~b.nan /\ RLt(a.v, b.v)
\* min(a, b) and max(a, b) of the language: the first argument unless the
\* second compares smaller (larger).
py_min(a, b) == IF FLess(b, a) THEN b ELSE a
py_max(a, b) == IF FLess(a, b) THEN b ELSE a

\* str.upper() on the action strings of the replies
Upper(str) ==
    IF str = "buy" THEN "BUY" ELSE IF str = "Sell" THEN "SELL" ELSE IF str = "hold" THEN "HOLD"
    ELSE str

\* A confidence that is taken as parsed.
unclamped(conf) == conf

\* conf = max(0.0, min(1.0, conf)) (agent_llm.py:124)
clamp(conf) == py_max(Num(Whole(0)), py_min(Num(Whole(1)), conf))

\* try: conf = float(data.get("confidence", 0.0)) / except: conf = 0.0
\* (agent_llm.py:122-123): a number or numeric string, the literal NaN, a
\* text or null, or no such key.
parse_confidence(c) ==
    IF c.tag = "num" THEN Num(c.v)
    ELSE IF c.tag = "nan" THEN NaN
    ELSE Num(Whole(0))

\* action = str(data.get("action", "HOLD")).upper(), HOLD unless one of the
\* three (agent_llm.py:120-121)
parse_action(a) ==
    LET up == IF a = "missing" THEN "HOLD" ELSE Upper(a)
    IN  IF up \notin {"BUY", "SELL", "HOLD"} THEN "HOLD" ELSE up

\* The body of the try (agent_llm.py:116-133) for a reply that holds a JSON
\* object and passes the validation of Decision, then _enforce_dca
\* (agent_llm.py:70-82), which also rewrites the confidence.
decide_from(reply, price, pos) ==
    LET action == parse_action(reply.action)
        conf   == clamp(parse_confidence(reply.confidence))
        after  == enforce_dca(price, pos, action, CFG.dca_step_bps)
    IN  [raised |-> FALSE, action |-> after,
         confidence |-> IF after # action THEN Num(Rat(52, 100)) ELSE conf]

\* except Exception (agent_llm.py:135-136)
llm_unavailable == [raised |-> FALSE, action |-> "HOLD", confidence |-> Num(Whole(0))]

ReplyKinds == {"json", "unreachable", "no_json", "invalid"}
ReplyActions == {"BUY", "buy", "Sell", "HOLD", "LONG", "missing"}
ReplyConfidences ==
    {[tag |-> "num", v |-> Rat(-1, 2)], [tag |-> "num", v |-> Whole(0)],
     [tag |-> "num", v |-> Rat(55, 100)], [tag |-> "num", v |-> Whole(1)],
     [tag |-> "num", v |-> Rat(3, 2)], [tag |-> "nan", v |-> Whole(0)],
     [tag |-> "text", v |-> Whole(0)], [tag |-> "missing", v |-> Whole(0)]}

DecideInit ==
    /\ gIn \in [reply : [kind : ReplyKinds, action : ReplyActions, confidence : ReplyConfidences],
                price : {Rat(9980, 100), Rat(9981, 100)},
                pos   : {Flat, [qty |-> Rat(255, 1000), avg |-> Whole(100), age_s |-> 60]}]
    /\ gPc = "ask"
    /\ gLoc = <<>>
    /\ gOut = <<>>
    /\ FifoIdle
    /\ ClientIdle
    /\ SysIdle

\* The server answered with a JSON object that makes a valid Decision.
LlmAnswers ==
    /\ gPc = "ask"
    /\ gIn.reply.kind = "json"
    /\ gOut' = <<decide_from(gIn.reply, gIn.price, gIn.pos)>>
    /\ gPc' = "decided"
    /\ UNCHANGED <<gIn, gLoc, fifoVars, clientVars, sysVars>>

\* The server cannot be reached (after the retries of _call_ollama), the
\* answer holds no JSON object, or Decision(...) rejects a field.
LlmFails ==
    /\ gPc = "ask"
    /\ gIn.reply.kind # "json"
    /\ gOut' = <<llm_unavailable>>
    /\ gPc' = "decided"
    /\ UNCHANGED <<gIn, gLoc, fifoVars, clientVars, sysVars>>

DecideNext ==
    \/ LlmAnswers
    \/ LlmFails

SpecDecide == DecideInit /\ [][DecideNext]_vars

\* C23: the decision handed to the worker has an action among BUY, SELL,
\* HOLD and a confidence in [0, 1]; another action becomes HOLD; a numeric
\* confidence that _enforce_dca does not rewrite is the answered one cut to
\* [0, 1]; when the server is unreachable or the answer unusable nothing is
\* raised and the decision is HOLD with confidence 0.
C23_DecisionIsValidated ==
    gPc = "decided" =>
        LET d == gOut[1]
            r == gIn.reply
        IN  /\ ~d.raised
            /\ d.action \in {"BUY", "SELL", "HOLD"}
            /\ ~d.confidence.nan
            /\ RLe(Whole(0), d.confidence.v)
            /\ RLe(d.confidence.v, Whole(1))
            /\ r.kind # "json" => (d.action = "HOLD" /\ d.confidence.v = Whole(0))
            /\ (r.kind = "json" /\ r.action \in {"LONG", "missing"}) => d.action = "HOLD"
            /\ (r.kind = "json" /\ r.confidence.tag = "num" /\ d.confidence.v # Rat(52, 100)) =>
                   d.confidence.v = (IF RLt(r.confidence.v, Whole(0)) THEN Whole(0)
                                     ELSE IF RLt(Whole(1), r.confidence.v) THEN Whole(1)
                                     ELSE r.confidence.v)

\* "LONG" with confidence 1.5 is handed on as HOLD with confidence 1.
C23_Witness ==
    /\ gPc = "decided"
    /\ gIn.reply.kind = "json"
    /\ gIn.reply.action = "LONG"
    /\ gIn.reply.confidence = [tag |-> "num", v |-> Rat(3, 2)]
    /\ gOut[1].action = "HOLD"
    /\ gOut[1].confidence = Num(Whole(1))

\* C24: every trade row has quantity > 0 and price > 0, and a step only
\* appends to the trade table: the rows already written stay as they are.
C24_TradesPositiveAndKept ==
    /\ [](\A i \in 1..Len(trades) : trades[i].qty > 0 /\ trades[i].price > 0)
    /\ [][/\ Len(trades') >= Len(trades)
          /\ SubSeq(trades', 1, Len(trades)) = trades]_vars

\* Reconciliation wrote the trade of a second filled order behind the first.
C24_Witness ==
    /\ mode = "live"
    /\ Len(trades) = 2
    /\ trades[1].cid # trades[2].cid

\* C25: after a SELL is filled below the average entry of the position, the
\* worker's RiskState has a lower today_loss and last_loss_ts set to the time
\* of the loss.
C25_LossIsRecorded ==
    (/\ gOut # <<>>
     /\ gOut[1].trade_rows # <<>>
     /\ gOut[1].trade_rows[1].side = "SELL"
     /\ RLt(gOut[1].trade_rows[1].price, gIn.pos_sell.avg)) =>
        /\ RLt(gOut[1].rs.today_loss, Observed.rs.today_loss)
        /\ gOut[1].rs.last_loss_ts = Observed.now

\* The transitions of an order's local status the life cycle lists.
ListedTransitions ==
    {<<"NEW", "PARTIALLY_FILLED">>, <<"NEW", "FILLED">>, <<"PARTIALLY_FILLED", "FILLED">>,
     <<"NEW", "CANCELED">>, <<"NEW", "EXPIRED">>, <<"NEW", "REJECTED">>}

\* C26: every change the poller makes to the status of a local order is one of
\* the listed transitions; a PARTIALLY_FILLED order never returns to NEW.
C26_ListedTransitionsOnly ==
    [][\A r \in orders, q \in orders' :
          (r.cid = q.cid /\ r.status # q.status) =>
              <<r.status, q.status>> \in ListedTransitions]_vars

\* C27: in live mode every trade carries the client id of an order whose local
\* status is FILLED.
C27_TradeOnlyWhenFilled ==
    mode = "live" =>
        \A i \in 1..Len(trades) :
            \E r \in orders : r.cid = trades[i].cid /\ r.status = "FILLED"

\* A filled order with its trade next to an order that ended on the exchange
\* after a partial fill and has no trade.
C27_Witness ==
    /\ mode = "live"
    /\ \E r \in orders : r.status = "FILLED" /\ TradesWithCid(r.cid) # {}
    /\ \E r \in orders, o \in exOrders :
          /\ o.cid = r.cid
          /\ o.executed > 0
          /\ r.status \in {"CANCELED", "EXPIRED", "REJECTED"}
          /\ TradesWithCid(r.cid) = {}

\* C28: a reconciliation pass queries every locally open order, however many
\* are open.
C28_EveryOpenOrderQueried ==
    [][(poller.pc = "idle" /\ poller'.pc = "query") =>
          \A r \in orders :
              r.status \in OpenStatuses =>
                  \E i \in 1..Len(poller'.rows) : poller'.rows[i].cid = r.cid]_vars

\* The steps of an iteration that can raise; no guard is among them.
RaisingSteps == {"action_emoji", "account", "execute", "snapshot"}

\* C29: an iteration that ends in a guard rejection wrote no order row and no
\* trade row, leaves the RiskState as it found it and sleeps HEARTBEAT; an
\* iteration that raised did so in a step that is no guard.
C29_RejectionLeavesNoTrace ==
    /\ (gOut # <<>> /\ gOut[1].result = "skipped") =>
          /\ gOut[1].order_rows = <<>>
          /\ gOut[1].trade_rows = <<>>
          /\ gOut[1].rs = Observed.rs
          /\ gOut[1].sleep = HEARTBEAT
          /\ gOut[1].sleep # ErrorSleep
    /\ (gOut # <<>> /\ gOut[1].result = "raised") => gOut[1].reason \in RaisingSteps

\* A SELL of an open position rejected by the profit floor, by a worker whose
\* RiskState carries a loss.
C29_Witness ==
    /\ SkippedFor("profit_floor")
    /\ gIn.pos_sell.qty # Whole(0)
    /\ Observed.rs.today_loss # Whole(0)

\* C30: in paper mode every trade carries the client id of an order row that
\* exists with status FILLED.
C30_PaperTradeHasFilledOrder ==
    mode = "paper" =>
        \A i \in 1..Len(trades) :
            \E r \in orders : r.cid = trades[i].cid /\ r.status = "FILLED"

\* C31: an iteration whose decision is SELL while the symbol has an open
\* position does not raise before the eligibility check, whether or not an
\* earlier iteration of the worker bound action_emoji.
C31_SellReachesGuards ==
    (gOut # <<>> /\ gLoc.action = "SELL" /\ gIn.pos.qty # Whole(0)) =>
        ~(gOut[1].result = "raised" /\ gOut[1].reason = "action_emoji")

\* The quantity the trades with one client id record.
RECURSIVE TradedQty(_, _)
TradedQty(ts, cid) ==
    IF ts = <<>> THEN 0
    ELSE (IF ts[1].cid = cid THEN ts[1].qty ELSE 0) + TradedQty(Tail(ts), cid)

\* C32: an order that is locally CANCELED, EXPIRED or REJECTED has the
\* quantity the exchange executed of it recorded by trades with its client id.
C32_ExecutedQuantityRecorded ==
    \A r \in orders, o \in exOrders :
        (o.cid = r.cid /\ r.status \in {"CANCELED", "EXPIRED", "REJECTED"}) =>
            TradedQty(trades, r.cid) = o.executed

\* C33: handling one order in a pass is all-or-nothing.  No trade carries the
\* client id of an order that is still locally open; a step that writes a
\* trade leaves its order FILLED in the same step; a step in which the
\* handling of an order fails changes neither the orders nor the trades.
C33_ReconciliationIsAtomic ==
    /\ [](mode = "live" =>
            \A r \in orders : r.status \in OpenStatuses => TradesWithCid(r.cid) = {})
    /\ [][/\ (mode = "live" /\ trades' # trades) =>
               \E r \in orders' :
                   /\ r.cid = trades'[Len(trades')].cid
                   /\ r.status = "FILLED"
          /\ (hist'.failed \ hist.failed # {}) => (orders' = orders /\ trades' = trades)]_vars

\* The handling of an order the exchange has filled failed: the order is
\* still open locally and has no trade.
C33_Witness ==
    \E r \in orders, o \in exOrders :
        /\ o.cid = r.cid
        /\ o.status = "FILLED"
        /\ r.cid \in hist.failed
        /\ r.status \in OpenStatuses
        /\ TradesWithCid(r.cid) = {}

\* C34: in live mode, while a BUY order of the symbol is still open locally,
\* no further BUY is submitted at a market price above the DCA threshold
\* computed from the pending order's price.
C34_NoBuyOverPendingBuy ==
    (Submitted /\ gIn.mode = "live" /\ gOut[1].side = "BUY" /\ gIn.pending_buy # <<>>) =>
        ~AboveDcaThreshold(gIn.price, gIn.pending_buy[1], CFG.dca_step_bps)

\* ---- two live workers whose symbols share the quote asset
\* BTCUSDT and ETHUSDT both split into quote USDT (main.py:36-43); each
\* worker is a task of one asyncio.gather (main.py:482-487) with its own
\* exchange client, and nothing orders their account reads and placements.
\* gLoc.free is the free quote balance the exchange holds; gLoc.seen[s] is the
\* balance worker s read and the number of orders sent when it read it.
SharedInput(s) ==
    [mode |-> "live", price |-> gIn.price, pos |-> Flat, pos_sell |-> Flat,
     free_quote |-> gLoc.seen[s].free_quote, free_base |-> Whole(0),
     rs |-> [usdt_balance |-> Whole(0), today_loss |-> Whole(0), last_loss_ts |-> 0],
     round_qty_dp |-> gIn.round_qty_dp, fee_bps |-> gIn.fee_bps, now |-> 100000]

SharedIdleSeen == [free_quote |-> Whole(0), sent |-> 0, px |-> Whole(0), qty |-> Whole(0)]

SharedInit ==
    /\ gIn \in [price : {Rat(300, 100), Whole(100)}, round_qty_dp : {0, 2}, fee_bps : {0, 20}]
    /\ \E free \in GuardWallets :
         gLoc = [free |-> free, seen |-> [s \in WorkerSymbols |-> SharedIdleSeen]]
    /\ gPc = [s \in WorkerSymbols |-> "loop"]
    /\ gOut = <<>>
    /\ FifoIdle
    /\ ClientIdle
    /\ SysIdle

\* acct = await client.account(...); free_quote = _free(quote) (main.py:144-168)
SharedReadsAccount(s) ==
    /\ gPc[s] = "loop"
    /\ gLoc' = [gLoc EXCEPT !.seen[s] = [SharedIdleSeen EXCEPT !.free_quote = gLoc.free,
                                                               !.sent = Len(gOut)]]
    /\ gPc' = [gPc EXCEPT ![s] = "sizing"]
    /\ UNCHANGED <<gIn, gOut, fifoVars, clientVars, sysVars>>

\* the BUY sizing from the balance read (main.py:173-220); a skip ends the
\* iteration (main.py:185-201)
SharedSizes(s) ==
    /\ gPc[s] = "sizing"
    /\ LET r == SizeBuy(SharedInput(s))
       IN  IF r.result = "skipped"
           THEN /\ gPc' = [gPc EXCEPT ![s] = "done"]
                /\ UNCHANGED gLoc
           ELSE /\ gPc' = [gPc EXCEPT ![s] = "execute"]
                /\ gLoc' = [gLoc EXCEPT !.seen[s].px = r.px, !.seen[s].qty = r.qty]
    /\ UNCHANGED <<gIn, gOut, fifoVars, clientVars, sysVars>>

SharedOrder(s) ==
    [symbol |-> s, notional |-> RMul(gLoc.seen[s].px, gLoc.seen[s].qty),
     seen |-> gLoc.seen[s].free_quote, sent |-> gLoc.seen[s].sent]

\* client.new_order (main.py:286-291): the exchange takes the order and locks
\* its notional out of the free quote balance.
SharedPlaces(s) ==
    /\ gPc[s] = "execute"
    /\ RLe(SharedOrder(s).notional, gLoc.free)
    /\ gOut' = Append(gOut, SharedOrder(s))
    /\ gLoc' = [gLoc EXCEPT !.free = RSub(@, SharedOrder(s).notional)]
    /\ gPc' = [gPc EXCEPT ![s] = "done"]
    /\ UNCHANGED <<gIn, fifoVars, clientVars, sysVars>>

\* client.new_order is sent and the exchange refuses it for insufficient
\* balance: new_order raises -> except branch (main.py:321-323).
SharedOrderRefused(s) ==
    /\ gPc[s] = "execute"
    /\ RLt(gLoc.free, SharedOrder(s).notional)
    /\ gOut' = Append(gOut, SharedOrder(s))
    /\ gPc' = [gPc EXCEPT ![s] = "done"]
    /\ UNCHANGED <<gIn, gLoc, fifoVars, clientVars, sysVars>>

SharedNext ==
    \E s \in WorkerSymbols :
        \/ SharedReadsAccount(s)
        \/ SharedSizes(s)
        \/ SharedPlaces(s)
        \/ SharedOrderRefused(s)

SpecShared == SharedInit /\ [][SharedNext]_vars

\* C35: the BUY orders two workers submit from one observed free quote
\* balance have a summed notional of at most that balance.
C35_SharedBalanceNotOverspent ==
    \A i \in 1..Len(gOut), j \in 1..Len(gOut) :
        (i < j /\ gOut[i].sent = gOut[j].sent) =>
            RLe(RAdd(gOut[i].notional, gOut[j].notional), gOut[i].seen)

\* C36: a BUY submitted while the position read by the iteration is open
\* carries a limit price of at most avg_entry * (1 - dca_step_bps / 10000).
C36_BuyLimitWithinDcaStep ==
    (Submitted /\ gOut[1].side = "BUY" /\ RLt(Whole(0), gIn.pos.qty)) =>
        ~AboveDcaThreshold(gOut[1].px, gIn.pos.avg, CFG.dca_step_bps)

\* C37: a SELL submitted while neither the stop-loss nor the time-stop holds
\* carries a limit price of at least the breakeven price.
C37_SellLimitAtLeastBreakeven ==
    (Submitted /\ gOut[1].side = "SELL" /\ ~StopLossHit /\ ~TimeStopHit) =>
        RLe(Breakeven(gIn.pos_sell.avg, gIn.fee_bps), gOut[1].px)

\* ---- a paper worker over several iterations, on exact amounts
MaxIterations == 3

\* while remaining > 1e-18 and lots: take from the oldest lot (db.py:195-201);
\* the amounts here are multiples of 10^-4, so > 1e-18 is > 0.
RECURSIVE ledger_consume(_, _)
ledger_consume(lots, remaining) ==
    IF ~RLt(Whole(0), remaining) \/ lots = <<>>
    THEN [lots |-> lots, remaining |-> remaining]
    ELSE LET take == RMin(lots[1].qty, remaining)
             left == RSub(lots[1].qty, take)
         IN  ledger_consume(IF RLe(left, Whole(0)) THEN Tail(lots)
                            ELSE <<[lots[1] EXCEPT !.qty = left]>> \o Tail(lots),
                            RSub(remaining, take))

\* The loop of fifo_position over the rows (db.py:187-202): the open lots and
\* the SELL quantity found beyond them, which the code drops.
RECURSIVE ledger_replay(_, _, _)
ledger_replay(rows, lots, discarded) ==
    IF rows = <<>> THEN [lots |-> lots, discarded |-> discarded]
    ELSE IF rows[1].side = "BUY"
         THEN ledger_replay(Tail(rows), Append(lots, [qty |-> rows[1].qty, price |-> rows[1].price]),
                            discarded)
         ELSE LET c == ledger_consume(lots, rows[1].qty)
              IN  ledger_replay(Tail(rows), c.lots, RAdd(discarded, c.remaining))

RECURSIVE ledger_sum(_, _)
ledger_sum(lots, withPrice) ==
    IF lots = <<>> THEN Whole(0)
    ELSE RAdd(IF withPrice THEN RMul(lots[1].qty, lots[1].price) ELSE lots[1].qty,
              ledger_sum(Tail(lots), withPrice))

\* qty_open, vwap of fifo_position (db.py:203-208) as get_open_position
\* returns them; age_s is the age of the oldest open lot.
ledger_position(rows, age_s) ==
    LET lots     == ledger_replay(rows, <<>>, Whole(0)).lots
        qty_open == ledger_sum(lots, FALSE)
    IN  IF RLe(qty_open, Whole(0)) THEN Flat
        ELSE [qty |-> qty_open, avg |-> RDiv(ledger_sum(lots, TRUE), qty_open), age_s |-> age_s]

PaperPrices == {Rat(250, 100), Rat(300, 100), Rat(310, 100)}

\* rs = RiskState(usdt_balance=CFG["paper"]["starting_usdt"]) (main.py:60)
PaperInit ==
    /\ gIn \in [round_qty_dp : {0, 1}, fee_bps : {0, 20}, starting_usdt : {Whole(6), Whole(20)}]
    /\ gLoc = [trades |-> <<>>, iter |-> 0,
               rs |-> [usdt_balance |-> gIn.starting_usdt, today_loss |-> Whole(0),
                       last_loss_ts |-> 0]]
    /\ gPc = "loop"
    /\ gOut = <<>>
    /\ FifoIdle
    /\ ClientIdle
    /\ SysIdle

\* What one iteration observes: the price of the last candle and the
\* position replayed from the trades table (main.py:70-87, 232).
PaperObserved(price, age_s) ==
    LET pos == ledger_position(gLoc.trades, age_s)
    IN  [mode |-> "paper", price |-> price, pos |-> pos, pos_sell |-> pos,
         free_quote |-> Whole(0), free_base |-> Whole(0), rs |-> gLoc.rs,
         round_qty_dp |-> gIn.round_qty_dp, fee_bps |-> gIn.fee_bps, now |-> 100000]

\* The sized order of the iteration, or the skip (main.py:113-269).
PaperSizing(in, action, confidence) ==
    LET decided == enforce_dca(in.price, in.pos, action, CFG.dca_step_bps)
    IN  IF decided = "HOLD" THEN Skipped("hold")
        ELSE IF ~allow_trade(confidence, in.rs, in.now) THEN Skipped("not_allowed")
        ELSE IF decided = "BUY" THEN SizeBuy(in)
        ELSE SizeSell(in)

PaperEnds(result, side, order, in) ==
    <<[result |-> result, side |-> side, px |-> order.px, qty |-> order.qty,
       pos_qty |-> in.pos_sell.qty, balance |-> gLoc.rs.usdt_balance]>>

\* A guard rejects: sleep and continue.
PaperSkips ==
    /\ gPc = "loop"
    /\ gLoc.iter < MaxIterations
    /\ \E price \in PaperPrices, action \in {"HOLD", "BUY", "SELL"},
          confidence \in {Rat(54, 100), Rat(55, 100)}, age_s \in {60, 5400} :
         LET in == PaperObserved(price, age_s)
             r  == PaperSizing(in, action, confidence)
         IN  /\ r.result = "skipped"
             /\ gOut' = PaperEnds("skipped", action, r, in)
    /\ gLoc' = [gLoc EXCEPT !.iter = @ + 1]
    /\ UNCHANGED <<gIn, gPc, fifoVars, clientVars, sysVars>>

\* Step 7 in paper mode (main.py:274-283): the trade is inserted and
\* committed, then the balance is moved.
PaperFills ==
    /\ gPc = "loop"
    /\ gLoc.iter < MaxIterations
    /\ \E price \in PaperPrices, action \in {"BUY", "SELL"}, age_s \in {60, 5400} :
         LET in == PaperObserved(price, age_s)
             r  == PaperSizing(in, action, Rat(55, 100))
         IN  /\ r.result = "order"
             /\ gOut' = PaperEnds("submitted", action, r, in)
             /\ gLoc' = [gLoc EXCEPT
                           !.iter = @ + 1,
                           !.trades = Append(@, [side |-> action, price |-> r.px, qty |-> r.qty]),
                           !.rs = rs_after_paper_fill(@, action, r.px, r.qty)]
    /\ UNCHANGED <<gIn, gPc, fifoVars, clientVars, sysVars>>

\* The iteration raises before or in session.commit() (main.py:70-280):
\* nothing is committed and line 281 is not reached -> except branch
\* (main.py:321-323).
PaperRaises ==
    /\ gPc = "loop"
    /\ gLoc.iter < MaxIterations
    /\ \E price \in PaperPrices, action \in {"BUY", "SELL"}, age_s \in {60, 5400} :
         LET in == PaperObserved(price, age_s)
             r  == PaperSizing(in, action, Rat(55, 100))
         IN  gOut' = PaperEnds("raised", action, r, in)
    /\ gLoc' = [gLoc EXCEPT !.iter = @ + 1]
    /\ UNCHANGED <<gIn, gPc, fifoVars, clientVars, sysVars>>

PaperNext ==
    \/ PaperSkips
    \/ PaperFills
    \/ PaperRaises

SpecPaper == PaperInit /\ [][PaperNext]_vars

RECURSIVE TotalOf(_, _)
TotalOf(rows, side) ==
    IF rows = <<>> THEN Whole(0)
    ELSE RAdd(IF rows[1].side = side THEN rows[1].qty ELSE Whole(0), TotalOf(Tail(rows), side))

\* C38: a submitted SELL has quantity at most the open position read in its
\* iteration; in paper mode the SELL quantities of the trade history never
\* sum to more than the BUY quantities, and the replay of the history
\* discards nothing.
C38_SellsWithinPosition ==
    /\ (gOut # <<>> /\ gOut[1].result = "submitted" /\ gOut[1].side = "SELL") =>
          /\ RLt(Whole(0), gOut[1].qty)
          /\ RLe(gOut[1].qty, gOut[1].pos_qty)
    /\ RLe(TotalOf(gLoc.trades, "SELL"), TotalOf(gLoc.trades, "BUY"))
    /\ ledger_replay(gLoc.trades, <<>>, Whole(0)).discarded = Whole(0)

\* A SELL of the whole position, which is smaller than the SELL target
\* max_per_trade_usd / px.
C38_Witness ==
    /\ gOut # <<>>
    /\ gOut[1].result = "submitted"
    /\ gOut[1].side = "SELL"
    /\ gOut[1].qty = gOut[1].pos_qty
    /\ RLt(RMul(gOut[1].px, gOut[1].pos_qty), CFG.max_per_trade_usd)
    /\ TotalOf(gLoc.trades, "SELL") = TotalOf(gLoc.trades, "BUY")

\* C39: in paper mode rs.usdt_balance is never negative; an iteration either
\* leaves the balance and the trades as they are, or commits one trade and
\* moves the balance by minus price * qty for a BUY and plus price * qty for
\* a SELL; an iteration that raises leaves both unchanged.
C39_PaperBalance ==
    /\ [](RLe(Whole(0), gLoc.rs.usdt_balance))
    /\ [][\/ /\ gLoc'.trades = gLoc.trades
             /\ gLoc'.rs = gLoc.rs
          \/ /\ Len(gLoc'.trades) = Len(gLoc.trades) + 1
             /\ SubSeq(gLoc'.trades, 1, Len(gLoc.trades)) = gLoc.trades
             /\ LET t == gLoc'.trades[Len(gLoc'.trades)]
                IN  /\ gLoc'.rs.usdt_balance =
                          IF t.side = "BUY"
                          THEN RSub(gLoc.rs.usdt_balance, RMul(t.price, t.qty))
                          ELSE RAdd(gLoc.rs.usdt_balance, RMul(t.price, t.qty))
                    /\ gOut'[1].result = "submitted"]_vars

\* A BUY spent the whole balance, a later iteration raised.
C39_Witness ==
    /\ gOut # <<>>
    /\ gOut[1].result = "raised"
    /\ gLoc.trades # <<>>
    /\ gLoc.rs.usdt_balance = Whole(0)

\* ---- the requests the tasks of main() send, by MODE
\* A worker that takes the live branch whatever MODE says.
PaperBranchNever(m) == FALSE

\* if mode == "paper": ... else: client.new_order (main.py:274, 284)
PaperBranch(m) == m = "paper"

\* if mode == "live" (main.py:144); env("MODE","paper") == "live"
\* (main.py:329, 398, 484)
IsLive(m) == m = "live"

\* _signed is behind account, order_status and new_order; klines goes through
\* public_get (mexc_client.py:151-195).
SignedCalls == {"account", "order_status", "new_order"}
Sent(task, call) == [task |-> task, call |-> call, signed |-> call \in SignedCalls]

PollerTasks == {"balance_poller", "order_status_poller"}
PollerCall(p) == IF p = "balance_poller" THEN "account" ELSE "order_status"

\* asyncio.run(main()): worker is the pc of one run_symbol task, poller maps
\* each poller to its pc, hist is the set of requests sent so far, now counts
\* the iterations of the worker.
RequestsInit ==
    /\ mode \in {"paper", "live"}
    /\ now = 0
    /\ worker = "main"
    /\ poller = [p \in PollerTasks |-> "absent"]
    /\ hist = {}
    /\ exOrders = {}
    /\ orders = {}
    /\ trades = <<>>
    /\ FifoIdle
    /\ ClientIdle
    /\ GuardIdle

\* main (main.py:480-487): the workers always, the pollers in live mode.
MainGathers ==
    /\ worker = "main"
    /\ worker' = "loop"
    /\ poller' = [p \in PollerTasks |-> IF IsLive(mode) THEN "start" ELSE "absent"]
    /\ UNCHANGED <<mode, now, exOrders, orders, trades, hist, fifoVars, clientVars, guardVars>>

\* 1) Market data (main.py:70)
WorkerGetsKlines ==
    /\ worker = "loop"
    /\ now < MaxTime
    /\ now' = now + 1
    /\ hist' = hist \cup {Sent("run_symbol", "klines")}
    /\ worker' = "decided"
    /\ UNCHANGED <<mode, exOrders, orders, trades, poller, fifoVars, clientVars, guardVars>>

\* HOLD or not allowed (main.py:126-128), or any raise
WorkerStartsOver ==
    /\ worker \in {"decided", "sized"}
    /\ worker' = "loop"
    /\ UNCHANGED <<mode, now, exOrders, orders, trades, poller, hist, fifoVars, clientVars, guardVars>>

\* 5) sizing: the account is read in live mode only (main.py:143-168)
WorkerReadsAccount ==
    /\ worker = "decided"
    /\ hist' = IF IsLive(mode) THEN hist \cup {Sent("run_symbol", "account")} ELSE hist
    /\ worker' = "sized"
    /\ UNCHANGED <<mode, now, exOrders, orders, trades, poller, fifoVars, clientVars, guardVars>>

\* 7) Execute (main.py:273-310): the paper fill, or client.new_order
WorkerExecutes ==
    /\ worker = "sized"
    /\ hist' = IF PaperBranch(mode) THEN hist ELSE hist \cup {Sent("run_symbol", "new_order")}
    /\ worker' = "loop"
    /\ UNCHANGED <<mode, now, exOrders, orders, trades, poller, fifoVars, clientVars, guardVars>>

\* The first statement of a poller (main.py:329-331, 398-400): return unless
\* MODE is live.
RequestPollerStarts(p) ==
    /\ poller[p] = "start"
    /\ poller' = [poller EXCEPT ![p] = IF IsLive(mode) THEN "polling" ELSE "returned"]
    /\ UNCHANGED <<mode, now, exOrders, orders, trades, worker, hist, fifoVars, clientVars, guardVars>>

\* A pass of a poller: client.account (main.py:346), client.order_status
\* for an open order (main.py:426).
RequestPollerPolls(p) ==
    /\ poller[p] = "polling"
    /\ hist' = hist \cup {Sent(p, PollerCall(p))}
    /\ UNCHANGED <<mode, now, exOrders, orders, trades, worker, poller, fifoVars, clientVars, guardVars>>

RequestsNext ==
    \/ MainGathers
    \/ WorkerGetsKlines
    \/ WorkerStartsOver
    \/ WorkerReadsAccount
    \/ WorkerExecutes
    \/ \E p \in PollerTasks : RequestPollerStarts(p) \/ RequestPollerPolls(p)

SpecRequests == RequestsInit /\ [][RequestsNext]_vars

\* C40: in paper mode no signed request is sent: the worker sends only the
\* public candle request, and no poller polls.
C40_PaperSendsNothingSigned ==
    mode = "paper" =>
        /\ \A r \in hist : ~r.signed /\ r.call = "klines" /\ r.task = "run_symbol"
        /\ \A p \in PollerTasks : poller[p] \in {"absent", "returned"}

\* A paper worker went through an execution and a later candle request.
C40_Witness ==
    /\ mode = "paper"
    /\ now >= 2
    /\ worker = "sized"
    /\ hist = {Sent("run_symbol", "klines")}

=============================================================================
